---- MODULE Spec2Model ----
(***************************************************************************)
(* A model of readimc's MCD reader: the schema locator                     *)
(* (MCDFile._read_schema_xml), the metadata graph builder (MCDParser), the *)
(* pixel extractor (MCDFile.read_acquisition) and the image blob extractor *)
(* (MCDFile.read_slide and its three siblings).                            *)
(*                                                                         *)
(* Every component is a function of its inputs, so each has its own        *)
(* specification: Init draws the inputs from bounded sets and the actions  *)
(* apply the operation.  The life cycle of an MCDFile object (open, close, *)
(* the accessors and the reads between them) is one more specification.    *)
(* Variables a specification does not use keep the value Idle.             *)
(***************************************************************************)
EXTENDS Integers, Sequences, FiniteSets, TLC

VARIABLES
    file,        \* schema locator: the bytes of the .mcd file
    schema,      \* schema locator: outcome of _read_schema_xml
    doc,         \* graph builder: the element tables of the schema document
    parsed,      \* graph builder: outcome of MCDParser.parse_slides
    acq,         \* pixel extractor: the acquisition and the file it is read from
    read,        \* pixel extractor: outcome of the last read_acquisition call
    img,         \* image extractor: the entity, its offsets, the file size
    image,       \* image extractor: outcome of the last read_* image call
    fh,          \* life cycle: self._fh, <<>> for None, else <<handle number>>
    handles,     \* life cycle: the handles open() has made, each open or closed
    last         \* life cycle: the last call on the object and its outcome

vars == <<file, schema, doc, parsed, acq, read, img, image, fh, handles, last>>

Idle == [kind |-> "idle"]

\* ------------------------------------------------------------------------
\* General helpers
\* ------------------------------------------------------------------------

Max(S) == CHOOSE x \in S : \A y \in S : y <= x

Min(S) == CHOOSE x \in S : \A y \in S : x <= y

RECURSIVE SeqsUpTo(_, _)
\* All sequences over S of length at most n.
SeqsUpTo(S, n) ==
    IF n = 0 THEN {<<>>}
    ELSE LET shorter == SeqsUpTo(S, n - 1)
         IN  shorter \cup {Append(s, x) : s \in shorter, x \in S}

RECURSIVE Flatten(_)
Flatten(ss) == IF ss = <<>> THEN <<>> ELSE Head(ss) \o Flatten(Tail(ss))

\* ------------------------------------------------------------------------
\* Schema locator: MCDFile._read_schema_xml
\* ------------------------------------------------------------------------

\* Bound: a file is a concatenation of at most MaxChunks chunks.
MaxChunks == 4

\* "<MCDSchema" and "</MCDSchema>" as sequences of code points.
start_sub == <<60, 77, 67, 68, 83, 99, 104, 101, 109, 97>>

end_sub == <<60, 47, 77, 67, 68, 83, 99, 104, 101, 109, 97, 62>>

\* str.encode("utf-16-le") for code points of the basic plane: low byte first.
EncodeUtf16le(s) ==
    [i \in 1..(2 * Len(s)) |->
        IF i % 2 = 1 THEN s[(i + 1) \div 2] % 256 ELSE s[i \div 2] \div 256]

start_sub_encoded == EncodeUtf16le(start_sub)

end_sub_encoded == EncodeUtf16le(end_sub)

\* The 16-bit code units of a byte string of even length.
CodeUnits(bytes) ==
    [i \in 1..(Len(bytes) \div 2) |-> bytes[2 * i - 1] + 256 * bytes[2 * i]]

IsHighSurrogate(u) == u >= 55296 /\ u <= 56319

IsLowSurrogate(u) == u >= 56320 /\ u <= 57343

\* bytes.decode("utf-16-le") succeeds iff the length is even and every
\* surrogate code unit is half of a well-formed pair.
Decodable(bytes) ==
    /\ Len(bytes) % 2 = 0
    /\ LET u == CodeUnits(bytes)
       IN  \A i \in 1..Len(u) :
              /\ IsHighSurrogate(u[i]) => (i < Len(u) /\ IsLowSurrogate(u[i + 1]))
              /\ IsLowSurrogate(u[i]) => (i > 1 /\ IsHighSurrogate(u[i - 1]))

\* The decoded text, kept as its sequence of UTF-16 code units.
DecodeUtf16le(bytes) == CodeUnits(bytes)

\* Whether needle occurs in hay at 0-based index i.
OccursAt(hay, needle, i) ==
    /\ i >= 0
    /\ i + Len(needle) <= Len(hay)
    /\ SubSeq(hay, i + 1, i + Len(needle)) = needle

RECURSIVE RFindDown(_, _, _, _)
RFindDown(hay, needle, lo, i) ==
    IF i < lo THEN -1
    ELSE IF OccursAt(hay, needle, i) THEN i
    ELSE RFindDown(hay, needle, lo, i - 1)

\* mmap.rfind(sub, start): the highest index >= start where sub occurs, or -1.
rfind(hay, needle, start) == RFindDown(hay, needle, start, Len(hay) - Len(needle))

RECURSIVE FindUp(_, _, _)
FindUp(hay, needle, i) ==
    IF i + Len(needle) > Len(hay) THEN -1
    ELSE IF OccursAt(hay, needle, i) THEN i
    ELSE FindUp(hay, needle, i + 1)

\* Mutant of StartIndex: the first occurrence instead of the last.
StartIndexFirst(f) == FindUp(f, start_sub_encoded, 0)

\* start_index = mm.rfind(start_sub_encoded)
StartIndex(f) == rfind(f, start_sub_encoded, 0)

\* Mutant of EndIndex: the search for the end marker ignores start_index.
EndIndexWholeFile(f, start_index) == rfind(f, end_sub_encoded, 0)

\* end_index = mm.rfind(end_sub_encoded, start_index)
EndIndex(f, start_index) == rfind(f, end_sub_encoded, start_index)

\* mm.seek(pos); mm.read(n): n bytes from pos, to the end of the map when n
\* is negative or runs past it.
MmapRead(f, pos, n) ==
    IF n < 0 THEN SubSeq(f, pos + 1, Len(f))
    ELSE SubSeq(f, pos + 1, Min({pos + n, Len(f)}))

SchemaError(type, marker) ==
    [kind |-> "error", type |-> type, marker |-> marker, text |-> <<>>]

\* MCDFile._read_schema_xml on an opened file with bytes f.
read_schema_xml(f) ==
    IF Len(f) = 0
    THEN \* mmap.mmap(fileno, 0) refuses an empty file
         SchemaError("ValueError", <<>>)
    ELSE LET start_index == StartIndex(f)
             end_index == EndIndex(f, start_index)
             data == MmapRead(f, start_index,
                              end_index + Len(end_sub_encoded) - start_index)
         IN  IF start_index = -1 THEN SchemaError("IOError corrupted", start_sub)
             ELSE IF end_index = -1 THEN SchemaError("IOError corrupted", end_sub)
             ELSE IF ~Decodable(data) THEN SchemaError("UnicodeDecodeError", <<>>)
             ELSE [kind |-> "ok", type |-> "str", marker |-> <<>>,
                   text |-> DecodeUtf16le(data)]

\* The pieces files are made of: the two markers, one character of text,
\* and a single byte (which shifts what follows off the 16-bit grid).
Chunks == {start_sub_encoded, end_sub_encoded, EncodeUtf16le(<<97>>), <<7>>}

Files == {Flatten(cs) : cs \in SeqsUpTo(Chunks, MaxChunks)}

InitSchema ==
    /\ file \in Files
    /\ schema = [kind |-> "unread"]
    /\ doc = Idle /\ parsed = Idle /\ acq = Idle /\ read = Idle
    /\ img = Idle /\ image = Idle
    /\ fh = Idle /\ handles = Idle /\ last = Idle

ReadSchemaXml ==
    /\ schema.kind = "unread"
    /\ schema' = read_schema_xml(file)
    /\ UNCHANGED <<file, doc, parsed, acq, read, img, image, fh, handles, last>>

NextSchema == ReadSchemaXml

SpecSchema == InitSchema /\ [][NextSchema]_vars

\* ---- Claims about the schema locator -----------------------------------

\* Where needle occurs in f (0-based byte indices), found without rfind.
Occurrences(f, needle) ==
    {i \in 0..(Len(f) - Len(needle)) : OccursAt(f, needle, i)}

StartOccurrences == Occurrences(file, start_sub_encoded)

\* End markers at or after the rightmost start marker.
EndOccurrencesAfterStart ==
    {e \in Occurrences(file, end_sub_encoded) : e >= Max(StartOccurrences)}

\* The bytes from the rightmost start marker through the last byte of the
\* rightmost end marker at or after it.
RightmostSpan ==
    SubSeq(file, Max(StartOccurrences) + 1,
           Max(EndOccurrencesAfterStart) + Len(end_sub_encoded))

MaxImageStart == 2

MaxImageBytes == 3

\* The header that precedes every embedded image blob.
HeaderSkip == 161

\* A metadata value is <<n>> when its text parses as the integer n and <<>>
\* when the key is missing or its text is no integer (KeyError, ValueError).
Parses(v) == Len(v) = 1

\* _read_image: fh.seek(data_offset); fh.read(data_size).  The range of the
\* file read: it starts at the seek position and is cut at the end of the
\* file (empty when the seek position lies at or past the end).
FileRead(size, data_offset, data_size) ==
    <<data_offset, Max({data_offset, Min({data_offset + data_size, size})})>>

ImageAbsent == [kind |-> "absent", error |-> "", entity |-> <<>>, range |-> <<>>]

ImageError(error, what, id, range) ==
    [kind |-> "error", error |-> error, entity |-> <<what, id>>, range |-> range]

ImageOk(range) == [kind |-> "ok", error |-> "", entity |-> <<>>, range |-> range]

\* Mutant of ImageDataStart: the header is not skipped.
ImageDataStartNoSkip(data_start_offset) == data_start_offset

\* data_start_offset += 161
ImageDataStart(data_start_offset) == data_start_offset + HeaderSkip

\* Mutant of ImageDataEnd: the end offset is used as recorded.
ImageDataEndAsRecorded(data_end_offset) == data_end_offset

\* data_end_offset -= 1
ImageDataEnd(data_end_offset) == data_end_offset - 1

\* Mutant of NoImage: a zero start offset alone means "no image".
NoImageStartOnly(data_start_offset, data_end_offset) == data_start_offset = 0

\* data_start_offset == data_end_offset == 0
NoImage(data_start_offset, data_end_offset) ==
    data_start_offset = 0 /\ data_end_offset = 0

\* Mutant of Seek: the cursor stays where the last read left it.
SeekSkipped(pos, data_offset) == pos

\* self._fh.seek(data_offset): the cursor after the seek, whatever it was.
Seek(pos, data_offset) == data_offset

\* The body the four read_* image methods share.  h is the handle (whether
\* self._fh is set, and its cursor), e is the entity, what and the two keys
\* are what the method at hand reads; decodes says whether the codec accepts
\* the bytes of this blob.  _read_image raises when self._fh is None, and
\* the method turns every exception of _read_image into "cannot read image".
ReadEmbeddedImageFrom(h, e, start_key, end_key, what, raw) ==
    IF ~Parses(e.metadata[start_key]) \/ ~Parses(e.metadata[end_key])
    THEN ImageError("cannot locate image data", what, e.id, <<>>)
    ELSE
    LET recorded_start == e.metadata[start_key][1]
        recorded_end == e.metadata[end_key][1]
        data_start_offset == ImageDataStart(recorded_start)
        data_end_offset == ImageDataEnd(recorded_end)
        range == FileRead(e.file_size, Seek(h.pos, data_start_offset),
                          data_end_offset - data_start_offset)
    IN  IF NoImage(recorded_start, recorded_end) THEN ImageAbsent
        ELSE IF data_start_offset >= data_end_offset
        THEN ImageError("invalid image data offsets", what, e.id, <<>>)
        ELSE IF ~h.open
        THEN ImageError("cannot read image", what, e.id, <<>>)
        ELSE IF raw THEN ImageOk(range)
        ELSE IF range[1] = range[2] \/ ~e.decodes
        THEN ImageError("cannot read image", what, e.id, range)
        ELSE ImageOk(range)

\* The handle of a file that has just been opened: self._fh is set, the
\* handle is open and its cursor is at the start.
FreshHandle == [set |-> TRUE, open |-> TRUE, pos |-> 0]

\* An image read on a file that has just been opened.
ReadEmbeddedImage(e, start_key, end_key, what, raw) ==
    ReadEmbeddedImageFrom(FreshHandle, e, start_key, end_key, what, raw)

read_slide(slide, raw) ==
    ReadEmbeddedImage(slide, "ImageStartOffset", "ImageEndOffset", "slide", raw)

read_panorama(panorama, raw) ==
    ReadEmbeddedImage(panorama, "ImageStartOffset", "ImageEndOffset",
                      "panorama", raw)

read_before_ablation_image(acquisition, raw) ==
    ReadEmbeddedImage(acquisition, "BeforeAblationImageStartOffset",
                      "BeforeAblationImageEndOffset",
                      "before-ablation acquisition", raw)

read_after_ablation_image(acquisition, raw) ==
    ReadEmbeddedImage(acquisition, "AfterAblationImageStartOffset",
                      "AfterAblationImageEndOffset",
                      "after-ablation acquisition", raw)

ImageStarts == {<<>>} \cup {<<n>> : n \in 0..MaxImageStart}

ImageEnds ==
    {<<>>} \cup {<<n>> : n \in 0..MaxImageStart}
           \cup {<<HeaderSkip + n>> : n \in 0..(MaxImageStart + MaxImageBytes)}

ImageFileSizes == {HeaderSkip + 1, HeaderSkip + MaxImageStart + MaxImageBytes}

\* Slides and panoramas carry one pair of image offsets; an acquisition
\* carries two, of which one is drawn freely and the other records "no image".
ImageMetadata(kind) ==
    IF kind = "acquisition"
    THEN {[BeforeAblationImageStartOffset |-> s, BeforeAblationImageEndOffset |-> e,
           AfterAblationImageStartOffset |-> <<0>>, AfterAblationImageEndOffset |-> <<0>>]
             : s \in ImageStarts, e \in ImageEnds}
         \cup
         {[BeforeAblationImageStartOffset |-> <<0>>, BeforeAblationImageEndOffset |-> <<0>>,
           AfterAblationImageStartOffset |-> s, AfterAblationImageEndOffset |-> e]
             : s \in ImageStarts, e \in ImageEnds}
    ELSE {[ImageStartOffset |-> s, ImageEndOffset |-> e]
             : s \in ImageStarts, e \in ImageEnds}

ImageEntities ==
    UNION {{[kind |-> k, id |-> i, metadata |-> m, file_size |-> z, decodes |-> d]
               : i \in {0, 1}, m \in ImageMetadata(k), z \in ImageFileSizes,
                 d \in BOOLEAN}
           : k \in {"slide", "panorama", "acquisition"}}

InitImage ==
    /\ img \in ImageEntities
    /\ image = [kind |-> "unread"]
    /\ file = Idle /\ schema = Idle /\ doc = Idle /\ parsed = Idle
    /\ acq = Idle /\ read = Idle
    /\ fh = Idle /\ handles = Idle /\ last = Idle

\* One call; the outcome is kept with the call that produced it.
ImageCall(op, start_key, end_key, raw, result) ==
    /\ image.kind = "unread"
    /\ image' = result @@
                [op |-> op, raw |-> raw,
                 start |-> img.metadata[start_key], end |-> img.metadata[end_key]]
    /\ UNCHANGED <<file, schema, doc, parsed, acq, read, img, fh, handles, last>>

ReadSlide ==
    /\ img.kind = "slide"
    /\ \E raw \in BOOLEAN :
          ImageCall("read_slide", "ImageStartOffset", "ImageEndOffset", raw,
                    read_slide(img, raw))

ReadPanorama ==
    /\ img.kind = "panorama"
    /\ \E raw \in BOOLEAN :
          ImageCall("read_panorama", "ImageStartOffset", "ImageEndOffset", raw,
                    read_panorama(img, raw))

ReadBeforeAblationImage ==
    /\ img.kind = "acquisition"
    /\ \E raw \in BOOLEAN :
          ImageCall("read_before_ablation_image",
                    "BeforeAblationImageStartOffset",
                    "BeforeAblationImageEndOffset", raw,
                    read_before_ablation_image(img, raw))

ReadAfterAblationImage ==
    /\ img.kind = "acquisition"
    /\ \E raw \in BOOLEAN :
          ImageCall("read_after_ablation_image",
                    "AfterAblationImageStartOffset",
                    "AfterAblationImageEndOffset", raw,
                    read_after_ablation_image(img, raw))

NextImage ==
    \/ ReadSlide
    \/ ReadPanorama
    \/ ReadBeforeAblationImage
    \/ ReadAfterAblationImage

SpecImage == InitImage /\ [][NextImage]_vars

\* ---- Claims about the image blob extractor -----------------------------

ImageCalled == image.kind # "unread"

\* Both offsets of the pair the call read parse as integers.
ImageOffsetsParse == ImageCalled /\ Parses(image.start) /\ Parses(image.end)

\* C8: each of the four image reads returns "absent" exactly when both
\* recorded offsets are zero, and in every successful call that returns an
\* image the bytes read from the file start at recorded start offset + 161.
C8_AbsentIffBothZeroElseSkipHeader ==
    ImageCalled =>
        /\ image.kind = "absent" <=>
              (image.start = <<0>> /\ image.end = <<0>>)
        /\ image.kind = "ok" => image.range[1] = image.start[1] + 161

\* C8 witness: one entity kind returned "absent" is not enough, so the
\* witness is a successful read of a blob whose recorded start is not zero.
C8_Witness ==
    /\ image.kind = "ok"
    /\ image.op = "read_before_ablation_image"
    /\ image.start[1] > 0
    /\ image.range[2] > image.range[1]

\* The outcome is the validation failure, naming the entity, with nothing read.
ImageRejected ==
    /\ image.kind = "error"
    /\ image.error = "invalid image data offsets"
    /\ image.entity = <<IF image.op = "read_slide" THEN "slide"
                        ELSE IF image.op = "read_panorama" THEN "panorama"
                        ELSE IF image.op = "read_before_ablation_image"
                             THEN "before-ablation acquisition"
                        ELSE "after-ablation acquisition", img.id>>
    /\ image.range = <<>>

\* The call got past validation and asked the file for the bytes [from, to).
ImageExtracted(from, to) ==
    /\ image.kind = "ok" \/ image.error = "cannot read image"
    /\ image.range = <<from, Max({from, Min({to, img.file_size})})>>

\* C9 as stated: validation passes exactly when start + 161 < end, and the
\* range extracted is then [start + 161, end).
C9_Original_RangeUpToEnd ==
    (ImageOffsetsParse /\ ~(image.start = <<0>> /\ image.end = <<0>>)) =>
        IF image.start[1] + 161 < image.end[1]
        THEN ImageExtracted(image.start[1] + 161, image.end[1])
        ELSE ImageRejected

\* C9 as amended: for an image whose offsets are not both zero, validation
\* passes exactly when start + 161 < end - 1, and the byte range extracted
\* and handed to the decoder is then [start + 161, end - 1) (cut at the end
\* of the file); otherwise the call raises the fatal error naming the owning
\* entity's id and kind and reads no bytes.
C9_RangeUpToEndMinusOne ==
    (ImageOffsetsParse /\ ~(image.start = <<0>> /\ image.end = <<0>>)) =>
        IF image.start[1] + 161 < image.end[1] - 1
        THEN ImageExtracted(image.start[1] + 161, image.end[1] - 1)
        ELSE ImageRejected

\* C9 witness: a read passed validation and took a non-empty range that stops
\* one byte short of the recorded end offset.
C9_Witness ==
    /\ image.kind = "ok"
    /\ image.range[2] > image.range[1]
    /\ image.range[2] = image.end[1] - 1

\* ------------------------------------------------------------------------
\* Metadata graph builder: MCDParser.parse_slides, _parse_slide,
\* _parse_panorama, _parse_acquisition
\* ------------------------------------------------------------------------
\* The schema document is kept as its element tables, each in document
\* order: doc.Slide, doc.Panorama, doc.AcquisitionROI, doc.Acquisition,
\* doc.AcquisitionChannel.  Integer fields hold the integer their text
\* denotes; channel names and labels are sequences of code points.

\* Python's list.sort(key=...) and sorted(..., key=...), on a sequence of
\* <<key, element>> pairs: stable, each pair goes after the pairs whose key
\* is not greater.
RECURSIVE InsertByKey(_, _)
InsertByKey(sorted, pair) ==
    IF sorted = <<>> THEN <<pair>>
    ELSE IF pair[1] < Head(sorted)[1] THEN <<pair>> \o sorted
    ELSE <<Head(sorted)>> \o InsertByKey(Tail(sorted), pair)

RECURSIVE SortPairsFrom(_, _, _)
SortPairsFrom(done, pairs, i) ==
    IF i > Len(pairs) THEN done
    ELSE SortPairsFrom(InsertByKey(done, pairs[i]), pairs, i + 1)

\* The elements of a sequence of <<key, element>> pairs, sorted by key.
SortPairs(pairs) ==
    LET sorted == SortPairsFrom(<<>>, pairs, 1)
    IN  [i \in 1..Len(pairs) |-> sorted[i][2]]

IdOf(entity) == entity.id

\* Mutant of SortById: the list is left in the order it was built.
SortByIdSkipped(seq) == seq

\* list.sort(key=lambda entity: entity.id)
SortById(seq) == SortPairs([i \in 1..Len(seq) |-> <<IdOf(seq[i]), seq[i]>>])

\* self._find_elements("Tag[Field='value']") is SelectSeq on the table of
\* the tag: the elements whose field has the value, in document order.

\* Character classes of _CHANNEL_REGEX: [a-zA-Z] and [0-9].
Letters == (65..90) \cup (97..122)

Digits == 48..57

RECURSIVE RunLength(_, _, _)
\* The number of consecutive characters of s, from position i on, in class.
RunLength(s, i, class) ==
    IF i > Len(s) \/ s[i] \notin class THEN 0
    ELSE 1 + RunLength(s, i + 1, class)

RECURSIVE DecimalValue(_)
\* int(text) for a sequence of digits.
DecimalValue(digits) ==
    IF digits = <<>> THEN 0
    ELSE 10 * DecimalValue(SubSeq(digits, 1, Len(digits) - 1))
         + (digits[Len(digits)] - 48)

\* _CHANNEL_REGEX.match(channel_name) for
\* ^(?P<metal>[a-zA-Z]+)\((?P<mass>[0-9]+)\)$ : <<>> when there is no match,
\* else <<[metal, mass]>>.  ($ also matches before one trailing newline.)
ChannelRegexMatch(channel_name) ==
    LET letters == RunLength(channel_name, 1, Letters)
        digits == RunLength(channel_name, letters + 2, Digits)
        close == letters + digits + 2
    IN  IF /\ letters >= 1
           /\ Len(channel_name) >= close
           /\ channel_name[letters + 1] = 40
           /\ digits >= 1
           /\ channel_name[close] = 41
           /\ \/ Len(channel_name) = close
              \/ Len(channel_name) = close + 1 /\ channel_name[close + 1] = 10
        THEN <<[metal |-> SubSeq(channel_name, 1, letters),
                mass |-> DecimalValue(SubSeq(channel_name, letters + 2,
                                             close - 1))]>>
        ELSE <<>>

NameX == <<88>>

NameY == <<89>>

NameZ == <<90>>

ParserError(message) == [kind |-> "error", error |-> message]

OrderNumberOf(elem) == elem.OrderNumber

\* acquisition_channel_elems.sort(key=... OrderNumber)
SortByOrderNumber(elems) ==
    SortPairs([i \in 1..Len(elems) |-> <<OrderNumberOf(elems[i]), elems[i]>>])

\* self._find_elements(f"AcquisitionChannel[AcquisitionID='{id}']"), sorted.
ChannelElemsOf(d, acquisition_id) ==
    SortByOrderNumber(SelectSeq(d.AcquisitionChannel,
                                LAMBDA c : c.AcquisitionID = acquisition_id))


\* The loop of _parse_acquisition over the sorted channel elements, from
\* index i (0-based) on: an error, or the acquisition with the channels of
\* the remaining elements appended.
RECURSIVE ParseChannels(_, _, _)
ParseChannels(acquisition, elems, i) ==
    IF i >= Len(elems) THEN [kind |-> "ok", acquisition |-> acquisition]
    ELSE
    LET channel_name == elems[i + 1].ChannelName
        m == ChannelRegexMatch(channel_name)
    IN  IF i = 0 /\ channel_name # NameX
        THEN ParserError("First channel should be named 'X'")
        ELSE IF i = 1 /\ channel_name # NameY
        THEN ParserError("Second channel should be named 'Y'")
        ELSE IF i = 2 /\ channel_name # NameZ
        THEN ParserError("Third channel should be named 'Z'")
        ELSE IF channel_name \in {NameX, NameY, NameZ}
        THEN ParseChannels(acquisition, elems, i + 1)
        ELSE IF m = <<>>
        THEN ParserError("Cannot extract channel information")
        ELSE ParseChannels(
                 [acquisition EXCEPT
                     !.channel_metals = Append(@, m[1].metal),
                     !.channel_masses = Append(@, m[1].mass),
                     !.channel_labels = Append(@, elems[i + 1].ChannelLabel)],
                 elems, i + 1)

\* Mutant of DeclaredChannels: every channel element is counted.
DeclaredChannelsAll(acquisition_channel_elems) == Len(acquisition_channel_elems)

\* len(acquisition_channel_elems) - 3
DeclaredChannels(acquisition_channel_elems) == Len(acquisition_channel_elems) - 3

\* MCDParser._parse_acquisition.  panorama is <<>> for None and <<p>> for
\* the panorama built from the p-th Panorama element of the document.
parse_acquisition(d, acquisition_elem, slide_id, panorama) ==
    LET acquisition_id == acquisition_elem.ID
        acquisition_channel_elems == ChannelElemsOf(d, acquisition_id)
        acquisition ==
            [id |-> acquisition_id,
             slide |-> slide_id,
             panorama |-> panorama,
             num_channels |-> DeclaredChannels(acquisition_channel_elems),
             channel_metals |-> <<>>,
             channel_masses |-> <<>>,
             channel_labels |-> <<>>]
    IN  ParseChannels(acquisition, acquisition_channel_elems, 0)

RECURSIVE TextLess(_, _)
\* Python's a < b on str: lexicographic by code point.
TextLess(a, b) ==
    IF b = <<>> THEN FALSE
    ELSE IF a = <<>> THEN TRUE
    ELSE IF Head(a) # Head(b) THEN Head(a) < Head(b)
    ELSE TextLess(Tail(a), Tail(b))

TextLessEq(a, b) == a = b \/ TextLess(a, b)

\* The test of _parse_slide on two acquisitions' metadata, which holds the
\* offsets as the text of the XML:
\* b_start <= a_start < b_end or b_start < a_end <= b_end
OverlapTest(a, b) ==
    LET a_start == a.metadata.DataStartOffset
        a_end == a.metadata.DataEndOffset
        b_start == b.metadata.DataStartOffset
        b_end == b.metadata.DataEndOffset
    IN  \/ TextLessEq(b_start, a_start) /\ TextLess(a_start, b_end)
        \/ TextLess(b_start, a_end) /\ TextLessEq(a_end, b_end)

\* for a, b in itertools.combinations(slide.acquisitions, 2): the warnings,
\* in the order they are issued, each naming the two acquisition ids.
OverlapWarnings(acquisitions) ==
    LET n == Len(acquisitions)
        pairs == Flatten([i \in 1..n |-> [k \in 1..(n - i) |-> <<i, i + k>>]])
        hits == SelectSeq(pairs, LAMBDA pr :
                    OverlapTest(acquisitions[pr[1]], acquisitions[pr[2]]))
    IN  [k \in 1..Len(hits) |->
            <<acquisitions[hits[k][1]].id, acquisitions[hits[k][2]].id>>]

\* self._find_elements(f"Panorama[SlideID='{slide.id}']"): the positions of
\* the slide's Panorama elements in the document, ascending.
PanoramaElemsOf(d, slide_id) ==
    SelectSeq([i \in 1..Len(d.Panorama) |-> i],
              LAMBDA i : d.Panorama[i].SlideID = slide_id)

\* The acquisitions _parse_slide reaches for a slide, in the order it
\* reaches them: for each Panorama element of the slide, for each
\* AcquisitionROI element with that PanoramaID, each Acquisition element with
\* that AcquisitionROIID.  A visit names the Panorama element by position.
Visits(d, slide_id) ==
    LET panorama_elems == PanoramaElemsOf(d, slide_id)
        RoiElems(p) ==
            SelectSeq(d.AcquisitionROI,
                      LAMBDA e : e.PanoramaID = d.Panorama[p].ID)
        AcquisitionElems(roi) ==
            SelectSeq(d.Acquisition, LAMBDA e : e.AcquisitionROIID = roi.ID)
        OfRoi(p, roi) ==
            LET elems == AcquisitionElems(roi)
            IN  [k \in 1..Len(elems) |-> [panorama_elem |-> p, elem |-> elems[k]]]
        OfPanorama(p) ==
            LET rois == RoiElems(p)
            IN  Flatten([k \in 1..Len(rois) |-> OfRoi(p, rois[k])])
    IN  Flatten([k \in 1..Len(panorama_elems) |-> OfPanorama(panorama_elems[k])])

\* Mutant of IsRealPanorama: every Panorama element is a real panorama.
IsRealPanoramaAlways(panorama_elem) == TRUE

\* if panorama_type != "Default": a real panorama
IsRealPanorama(panorama_elem) == panorama_elem.Type # "Default"

\* The first failure among results, in order; <<>> when there is none.
FirstError(results) ==
    LET failed == {k \in 1..Len(results) : results[k].kind = "error"}
    IN  IF failed = {} THEN <<>> ELSE <<results[Min(failed)]>>

\* The calls of _parse_acquisition on the visits of a slide, in order; the
\* Acquisition keeps the metadata dictionary of its element.  Each call makes
\* a new object: visit, the number of the call, tells the objects of one
\* slide apart.
AcquisitionResults(d, slide_id, visits) ==
    [k \in 1..Len(visits) |->
        LET p == visits[k].panorama_elem
            r == parse_acquisition(
                     d, visits[k].elem, slide_id,
                     IF IsRealPanorama(d.Panorama[p]) THEN <<p>> ELSE <<>>)
        IN  IF r.kind = "error" THEN r
            ELSE [kind |-> "ok",
                  acquisition |->
                      r.acquisition @@ [metadata |-> visits[k].elem.metadata,
                                        visit |-> k]]]

\* MCDParser._parse_panorama for the p-th Panorama element, with the
\* acquisitions appended to it, in the order they were appended.
parse_panorama(d, p, slide_id, visits, acquisitions) ==
    LET ks == SelectSeq([k \in 1..Len(visits) |-> k],
                        LAMBDA k : visits[k].panorama_elem = p)
    IN  [id |-> d.Panorama[p].ID,
         slide |-> slide_id,
         elem |-> p,
         acquisitions |-> [j \in 1..Len(ks) |-> acquisitions[ks[j]]]]

\* slide.panoramas before it is sorted: the real panoramas of the slide in
\* document order.
SlidePanoramas(d, slide_id, visits, acquisitions) ==
    LET real == SelectSeq(PanoramaElemsOf(d, slide_id),
                          LAMBDA p : IsRealPanorama(d.Panorama[p]))
    IN  [k \in 1..Len(real) |->
            parse_panorama(d, real[k], slide_id, visits, acquisitions)]

\* The end of _parse_slide: the overlap warnings, then the two sorts.
FinishSlide(d, slide_id, visits, acquisitions) ==
    [kind |-> "ok",
     warnings |-> OverlapWarnings(acquisitions),
     slide |-> [id |-> slide_id,
                panoramas |->
                    SortById(SlidePanoramas(d, slide_id, visits, acquisitions)),
                acquisitions |-> SortById(acquisitions)]]

SlideFromResults(d, slide_id, visits, results, error) ==
    IF error # <<>> THEN error[1]
    ELSE FinishSlide(d, slide_id, visits,
                     [k \in 1..Len(results) |-> results[k].acquisition])

SlideFromVisits(d, slide_id, visits, results) ==
    SlideFromResults(d, slide_id, visits, results, FirstError(results))

\* MCDParser._parse_slide
parse_slide(d, slide_elem) ==
    SlideFromVisits(d, slide_elem.ID, Visits(d, slide_elem.ID),
                    AcquisitionResults(d, slide_elem.ID,
                                       Visits(d, slide_elem.ID)))

SlidesFromResults(results, error) ==
    IF error # <<>> THEN error[1]
    ELSE [kind |-> "ok",
          warnings |-> Flatten([k \in 1..Len(results) |-> results[k].warnings]),
          slides |-> SortById([k \in 1..Len(results) |-> results[k].slide])]

SlideResults(results) == SlidesFromResults(results, FirstError(results))

\* MCDParser.parse_slides
parse_slides(d) ==
    SlideResults([k \in 1..Len(d.Slide) |-> parse_slide(d, d.Slide[k])])

\* ---- Documents with one acquisition and a drawn channel table ------------

MaxChannels == 4

\* "Ag(107)", "Pr(141)" and the malformed "Ag107"
NameAg107 == <<65, 103, 40, 49, 48, 55, 41>>

NamePr141 == <<80, 114, 40, 49, 52, 49, 41>>

NameMalformed == <<65, 103, 49, 48, 55>>

ChannelNames == {NameX, NameY, NameZ, NameAg107, NamePr141, NameMalformed}

\* str(n) for n >= 0, as code points.
RECURSIVE DecimalText(_)
DecimalText(n) ==
    IF n < 10 THEN <<48 + n>>
    ELSE DecimalText(n \div 10) \o <<48 + (n % 10)>>

\* An Acquisition element; its data block is [100 * id, 100 * id + 50).
AcquisitionElem(id, roi_id) ==
    [ID |-> id,
     AcquisitionROIID |-> roi_id,
     metadata |-> [DataStartOffset |-> DecimalText(100 * id),
                   DataEndOffset |-> DecimalText(100 * id + 50)]]

\* The AcquisitionChannel elements of acquisition id whose names, by
\* OrderNumber, are names; in document order, or reversed.
ChannelElems(id, names, reversed) ==
    [k \in 1..Len(names) |->
        LET j == IF reversed THEN Len(names) + 1 - k ELSE k
        IN  [AcquisitionID |-> id,
             OrderNumber |-> j - 1,
             ChannelName |-> names[j],
             ChannelLabel |-> <<76>> \o names[j]]]

\* One slide, one panorama, one region and acquisition 1 with the channel
\* table given; with foreign, a channel of another acquisition comes first.
ChannelDoc(names, reversed, foreign) ==
    [Slide |-> <<[ID |-> 0]>>,
     Panorama |-> <<[ID |-> 1, SlideID |-> 0, Type |-> "Instrument"]>>,
     AcquisitionROI |-> <<[ID |-> 1, PanoramaID |-> 1]>>,
     Acquisition |-> <<AcquisitionElem(1, 1)>>,
     AcquisitionChannel |->
        (IF foreign THEN ChannelElems(2, <<NameAg107>>, FALSE) ELSE <<>>)
        \o ChannelElems(1, names, reversed)]

ChannelDocs ==
    {ChannelDoc(names, reversed, foreign) :
        names \in SeqsUpTo(ChannelNames, MaxChannels),
        reversed \in BOOLEAN, foreign \in BOOLEAN}

Unparsed == [kind |-> "unparsed"]

InitChannels ==
    /\ doc \in ChannelDocs
    /\ parsed = Unparsed
    /\ file = Idle /\ schema = Idle /\ acq = Idle /\ read = Idle
    /\ img = Idle /\ image = Idle
    /\ fh = Idle /\ handles = Idle /\ last = Idle

\* MCDParser.parse_slides on the document (MCDFile.open calls it once).
ParseSlides ==
    /\ parsed = Unparsed
    /\ parsed' = parse_slides(doc)
    /\ UNCHANGED <<file, schema, doc, acq, read, img, image, fh, handles, last>>

NextChannels == ParseSlides

SpecChannels == InitChannels /\ [][NextChannels]_vars

\* ---- Claims about the channel table of an acquisition --------------------

\* The names of the channel entries of acquisition id, ordered by OrderNumber.
EntryNames(d, id) ==
    LET elems == ChannelElemsOf(d, id)
    IN  [k \in 1..Len(elems) |-> elems[k].ChannelName]

ParsedAcquisitions ==
    IF parsed.kind # "ok" THEN {}
    ELSE UNION {{s.acquisitions[k] : k \in 1..Len(s.acquisitions)} :
                    s \in {parsed.slides[i] : i \in 1..Len(parsed.slides)}}

\* C4 (as stated; refuted): every Acquisition built by _parse_acquisition has
\* len(channel_metals) = len(channel_masses) = len(channel_labels) =
\* num_channels.
C4_ChannelSequencesMatchDeclaredCount ==
    \A a \in ParsedAcquisitions :
        /\ Len(a.channel_metals) = a.num_channels
        /\ Len(a.channel_masses) = a.num_channels
        /\ Len(a.channel_labels) = a.num_channels

FirstThreeAreXYZ(names) ==
    Len(names) >= 3 /\ SubSeq(names, 1, 3) = <<NameX, NameY, NameZ>>

FirstThreeErrors ==
    {ParserError("First channel should be named 'X'"),
     ParserError("Second channel should be named 'Y'"),
     ParserError("Third channel should be named 'Z'")}

\* C5 (as stated; refuted): an Acquisition element whose first three channel
\* entries, by OrderNumber, are not exactly 'X', 'Y', 'Z' makes parsing fail
\* with the 'first three channels' error, and no slide list is produced.
C5_FirstThreeNotXYZIsFatal ==
    (/\ parsed # Unparsed /\ parsed # Idle
     /\ \E k \in 1..Len(doc.Acquisition) :
            ~FirstThreeAreXYZ(EntryNames(doc, doc.Acquisition[k].ID)))
        => parsed \in FirstThreeErrors

\* ---- Documents with drawn slides, panoramas, regions and acquisitions ----

\* Bound: a document holds at most MaxElems Panorama, AcquisitionROI and
\* Acquisition elements in all.
MaxElems == 4

SlideIds == {0, 1}

PanoramaIds == {1, 2}

RoiIds == {1, 2}

AcquisitionIds == {1, 2}

PanoramaElems ==
    {[ID |-> id, SlideID |-> s, Type |-> t] :
        id \in PanoramaIds, s \in SlideIds, t \in {"Default", "Instrument"}}

RoiElems == {[ID |-> id, PanoramaID |-> p] : id \in RoiIds, p \in PanoramaIds}

AcquisitionElems ==
    {AcquisitionElem(id, roi) : id \in AcquisitionIds, roi \in RoiIds}

\* X, Y, Z and one metal channel: a channel table that parses.
GoodChannels == <<NameX, NameY, NameZ, NameAg107>>

ParseDoc(slide_ids, panoramas, rois, acquisitions) ==
    [Slide |-> [k \in 1..Len(slide_ids) |-> [ID |-> slide_ids[k]]],
     Panorama |-> panoramas,
     AcquisitionROI |-> rois,
     Acquisition |-> acquisitions,
     AcquisitionChannel |->
        ChannelElems(1, GoodChannels, FALSE) \o ChannelElems(2, GoodChannels, TRUE)]

InitParse ==
    /\ \E np \in 0..MaxElems :
       \E nr \in 0..(MaxElems - np) :
       \E na \in 0..(MaxElems - np - nr) :
       \E slide_ids \in {<<0>>, <<1, 0>>},
          panoramas \in [1..np -> PanoramaElems],
          rois \in [1..nr -> RoiElems],
          acquisitions \in [1..na -> AcquisitionElems] :
            doc = ParseDoc(slide_ids, panoramas, rois, acquisitions)
    /\ parsed = Unparsed
    /\ file = Idle /\ schema = Idle /\ acq = Idle /\ read = Idle
    /\ img = Idle /\ image = Idle
    /\ fh = Idle /\ handles = Idle /\ last = Idle

NextParse == ParseSlides

SpecParse == InitParse /\ [][NextParse]_vars

\* ---- Claims about the parsed slide list ----------------------------------

Ids(seq) == [k \in 1..Len(seq) |-> seq[k].id]

\* Ascending with no two equal neighbours: sorted and free of duplicates.
StrictlyAscending(ids) == \A k \in 1..(Len(ids) - 1) : ids[k] < ids[k + 1]

Distinct(table) ==
    \A i, j \in 1..Len(table) : table[i].ID = table[j].ID => i = j

\* A valid document: no two elements of one kind carry the same ID.
UniqueIds(d) ==
    /\ Distinct(d.Slide) /\ Distinct(d.Panorama)
    /\ Distinct(d.AcquisitionROI) /\ Distinct(d.Acquisition)

ReadError(type, message) ==
    [kind |-> "error", type |-> type, message |-> message]

\* A call's arguments: c.f, c.acquisition, c.strict, c.channels, c.region,
\* c.create_temp_file.

\* np.zeros((num_selected_channels, height, width), dtype=np.float32)
Zeros(shape, warnings) ==
    IF \E k \in 1..3 : shape[k] < 0
    THEN ReadError("ValueError", "negative dimensions are not allowed")
    ELSE [kind |-> "ok", dtype |-> "float32", shape |-> shape,
          warnings |-> warnings,
          img |-> [i \in 1..shape[1] |-> [y \in 1..shape[2] |->
                      [x \in 1..shape[3] |-> 0]]]]

\* A numpy index into an axis of length n: negative indices count from the
\* end; <<>> when it is out of bounds.
AxisIndex(i, n) ==
    IF 0 <= i /\ i < n THEN <<i>>
    ELSE IF -n <= i /\ i < 0 THEN <<i + n>>
    ELSE <<>>

\* Mutant of Fill: of the pixels that land on one cell the first one stays.
FillFirstWins(shape, selected, xs, ys, data, warnings) ==
    IF \E k \in 1..3 : shape[k] < 0
    THEN ReadError("ValueError", "negative dimensions are not allowed")
    ELSE IF /\ Len(selected) > 0
            /\ \E k \in 1..Len(xs) :
                   AxisIndex(ys[k], shape[2]) = <<>> \/ AxisIndex(xs[k], shape[3]) = <<>>
    THEN ReadError("IndexError", "index is out of bounds")
    ELSE [kind |-> "ok", dtype |-> "float32", shape |-> shape,
          warnings |-> warnings,
          img |-> [i \in 1..shape[1] |-> [y \in 1..shape[2] |->
                      [x \in 1..shape[3] |->
                          LET hits == {k \in 1..Len(xs) :
                                          /\ AxisIndex(ys[k], shape[2]) = <<y - 1>>
                                          /\ AxisIndex(xs[k], shape[3]) = <<x - 1>>}
                          IN  IF hits = {} THEN 0
                              ELSE data[Min(hits)][selected[i] + 4]]]]]

\* for i, c in enumerate(...): img[i, ys, xs] = data[:, c + 3] on a zero
\* array; of the pixels that land on one cell the last one stays.
Fill(shape, selected, xs, ys, data, warnings) ==
    IF \E k \in 1..3 : shape[k] < 0
    THEN ReadError("ValueError", "negative dimensions are not allowed")
    ELSE IF /\ Len(selected) > 0
            /\ \E k \in 1..Len(xs) :
                   AxisIndex(ys[k], shape[2]) = <<>> \/ AxisIndex(xs[k], shape[3]) = <<>>
    THEN ReadError("IndexError", "index is out of bounds")
    ELSE [kind |-> "ok", dtype |-> "float32", shape |-> shape,
          warnings |-> warnings,
          img |-> [i \in 1..shape[1] |-> [y \in 1..shape[2] |->
                      [x \in 1..shape[3] |->
                          LET hits == {k \in 1..Len(xs) :
                                          /\ AxisIndex(ys[k], shape[2]) = <<y - 1>>
                                          /\ AxisIndex(xs[k], shape[3]) = <<x - 1>>}
                          IN  IF hits = {} THEN 0
                              ELSE data[Max(hits)][selected[i] + 4]]]]]

\* Lines 212-241: the empty case, the image array and the fill.
\* np.memmap(temp_file.name, mode="r", ...) maps the temporary file just
\* created, which is empty, and mmap refuses an empty file.
BuildImage(c, shape, selected, xs, ys, data, warnings) ==
    IF Len(xs) = 0 THEN Zeros(shape, warnings)
    ELSE IF c.create_temp_file # <<>>
    THEN ReadError("ValueError", "cannot mmap an empty file")
    ELSE Fill(shape, selected, xs, ys, data, warnings)

\* Mutant of NumSelectedChannels: the channel subset is not counted.
NumSelectedChannelsAll(c, num_channels) == num_channels

\* Lines 206-210: num_selected_channels
NumSelectedChannels(c, num_channels) ==
    IF c.channels # <<>> THEN Len(c.channels[1]) ELSE num_channels

\* Mutant of SelectedChannels: the requested channels are taken last first.
SelectedChannelsReversed(c, num_channels) ==
    IF c.channels # <<>>
    THEN [i \in 1..Len(c.channels[1]) |->
             c.channels[1][Len(c.channels[1]) + 1 - i]]
    ELSE [i \in 1..num_channels |-> i - 1]

\* Line 237: channels if channels is not None else range(num_channels)
SelectedChannels(c, num_channels) ==
    IF c.channels # <<>> THEN c.channels[1]
    ELSE [i \in 1..num_channels |-> i - 1]

\* if region[2] > width or region[3] > height
RegionTooLarge(region, width, height) ==
    region[3] > width \/ region[4] > height

\* Lines 198-204 for region = (x_min, y_min, x_max, y_max).
CropToRegion(c, region, num_channels, data, warnings) ==
    LET keep == SelectSeq([k \in 1..Len(data) |-> k],
                          LAMBDA k : /\ data[k][1] >= region[1]
                                     /\ data[k][1] < region[3]
                                     /\ data[k][2] >= region[2]
                                     /\ data[k][2] < region[4])
    IN  BuildImage(c,
                   <<NumSelectedChannels(c, num_channels),
                     region[4] - region[2], region[3] - region[1]>>,
                   SelectedChannels(c, num_channels),
                   [j \in 1..Len(keep) |-> data[keep[j]][1] - region[1]],
                   [j \in 1..Len(keep) |-> data[keep[j]][2] - region[2]],
                   [j \in 1..Len(keep) |-> data[keep[j]]],
                   warnings)

\* Lines 190-210: xs and ys are the first two columns of the pixel table.
SelectRegion(c, num_channels, width, height, data, warnings) ==
    IF c.region = <<>>
    THEN BuildImage(c,
                    <<NumSelectedChannels(c, num_channels), height, width>>,
                    SelectedChannels(c, num_channels),
                    [k \in 1..Len(data) |-> data[k][1]],
                    [k \in 1..Len(data) |-> data[k][2]],
                    data, warnings)
    ELSE IF RegionTooLarge(c.region[1].box, width, height)
    THEN ReadError("ValueError", "Region is larger than the image")
    ELSE CropToRegion(c, c.region[1].box, num_channels, data, warnings)

\* np.memmap(self._fh, dtype=np.float32, mode="r", offset=data_start_offset,
\* shape=(num_pixels, num_channels + 3)): 4 bytes a value whatever
\* ValueBytes says; mmap refuses a mapping that ends beyond the file.
Memmap(c, offset, num_pixels, num_channels, width, height, warnings) ==
    IF offset + 4 * num_pixels * (num_channels + 3) > c.f.size
    THEN ReadError("ValueError", "mmap length is greater than file size")
    ELSE SelectRegion(c, num_channels, width, height,
                      [k \in 1..num_pixels |-> [col \in 1..(num_channels + 3) |->
                          c.f.words[(offset \div 4)
                                    + (k - 1) * (num_channels + 3) + col]]],
                      warnings)

\* Lines 169-178.
CheckChannels(c, m, num_channels, data_size, warnings) ==
    IF /\ c.channels # <<>>
       /\ \E k \in 1..Len(c.channels[1]) :
              ~(0 <= c.channels[1][k] /\ c.channels[1][k] < num_channels)
    THEN ReadError("ValueError", "Invalid channel indices")
    ELSE Memmap(c, m.data_start_offset,
                data_size \div ((num_channels + 3) * m.value_bytes),
                num_channels, m.width, m.height, warnings)

\* Lines 157-167 for m = the five integers read from the metadata.
CheckDataSize(c, m, num_channels, data_size, warnings) ==
    IF (num_channels + 3) * m.value_bytes = 0
    THEN ReadError("ZeroDivisionError", "integer division or modulo by zero")
    ELSE IF data_size % ((num_channels + 3) * m.value_bytes) = 0
    THEN CheckChannels(c, m, num_channels, data_size, warnings)
    ELSE IF c.strict
    THEN ReadError("IOError", "corrupted: invalid data size")
    ELSE CheckChannels(c, m, num_channels, data_size + 1,
                       Append(warnings, "corrupted: adjusting data size"))

\* Mutant of OffsetsInvalid: an empty data block is refused as well.
OffsetsInvalidOrEmpty(m) ==
    m.data_start_offset >= m.data_end_offset \/ m.value_bytes <= 0

\* Mutant of OffsetsInvalid: the byte size is not looked at.
OffsetsInvalidStartOnly(m) == m.data_start_offset > m.data_end_offset

\* if data_start_offset > data_end_offset or value_bytes <= 0
OffsetsInvalid(m) ==
    m.data_start_offset > m.data_end_offset \/ m.value_bytes <= 0

\* Lines 145-155.
CheckOffsets(c, m) ==
    IF OffsetsInvalid(m)
    THEN ReadError("IOError", "corrupted: invalid data offsets or byte size")
    ELSE IF m.data_end_offset > c.f.size
    THEN ReadError("IOError", "corrupted: data_end_offset exceeds file size")
    ELSE CheckDataSize(c, m, c.acquisition[1].num_channels,
                       m.data_end_offset - m.data_start_offset,
                       IF m.data_start_offset = m.data_end_offset
                       THEN <<"contains empty acquisition image data">>
                       ELSE <<>>)

\* Lines 133-143: int(acquisition.metadata[key]) for the five keys.
ReadMetadata(c, metadata) ==
    IF \E key \in {"DataStartOffset", "DataEndOffset", "ValueBytes",
                   "MaxX", "MaxY"} : metadata[key] = <<>>
    THEN ReadError("IOError", "corrupted: missing metadata")
    ELSE CheckOffsets(c, [data_start_offset |-> metadata.DataStartOffset[1],
                          data_end_offset |-> metadata.DataEndOffset[1],
                          value_bytes |-> metadata.ValueBytes[1],
                          width |-> metadata.MaxX[1],
                          height |-> metadata.MaxY[1]])

\* if region[0] >= region[2] or region[1] >= region[3]
RegionOutOfOrder(region) == region[1] >= region[3] \/ region[2] >= region[4]

\* MCDFile.read_acquisition.  c.region is <<>> or <<[ints, box]>>, ints
\* telling whether every component of the tuple is an int;
\* c.create_temp_file is <<>> or <<[path, writable]>>, path telling whether
\* it is a str or Path, writable whether it exists and can be written.
read_acquisition(c) ==
    IF c.acquisition = <<>>
    THEN ReadError("ValueError", "acquisition must be specified")
    ELSE IF ~c.f.opened
    THEN ReadError("IOError", "has not been opened")
    ELSE IF c.region # <<>> /\ ~c.region[1].ints
    THEN ReadError("ValueError", "region must be a tuple of integers")
    ELSE IF c.region # <<>> /\ RegionOutOfOrder(c.region[1].box)
    THEN ReadError("ValueError", "region must be (x_min, y_min, x_max, y_max)")
    ELSE IF c.create_temp_file # <<>> /\ ~c.create_temp_file[1].path
    THEN ReadError("ValueError", "create_temp_file must be a string or Path object.")
    ELSE IF c.create_temp_file # <<>> /\ ~c.create_temp_file[1].writable
    THEN ReadError("PermissionError", "The path is not writable.")
    ELSE ReadMetadata(c, c.acquisition[1].metadata)

\* ---- Calls of read_acquisition -------------------------------------------

MaxPixels == 2

MaxNumChannels == 1

\* Image sides and pixel coordinates of the drawn acquisitions.
Sides == {1, 2}

Coords == {0, 1}

\* Bound: the drawn files open with HeaderWords words of header.
HeaderWords == 1

\* The first byte of the pixel table in every drawn file.
TableOffset == 4 * HeaderWords

\* The row of the k-th pixel, at coordinates xy, of an acquisition with
\* num_channels channels: X, Y, Z and the channel values 10 * k + j.
PixelRow(k, xy, num_channels) ==
    SubSeq(<<xy[1], xy[2], 0>> \o [j \in 1..num_channels |-> 10 * k + j],
           1, num_channels + 3)

\* An open file: the header, the pixel table, one word of trailer.
TableFile(coords, num_channels) ==
    LET words == [k \in 1..HeaderWords |-> 9]
                 \o Flatten([k \in 1..Len(coords) |->
                                PixelRow(k, coords[k], num_channels)])
                 \o <<7>>
    IN  [opened |-> TRUE, size |-> 4 * Len(words), words |-> words]

\* The byte after the pixel table.
TableEnd(coords, num_channels) ==
    TableOffset + 4 * Len(coords) * (num_channels + 3)

\* The pixels of a width x height image, row by row.
FullScan(width, height) ==
    [k \in 1..(width * height) |-> <<(k - 1) % width, (k - 1) \div width>>]

AcquisitionOf(num_channels, start, end, value_bytes, width, height) ==
    <<[num_channels |-> num_channels,
       metadata |-> [DataStartOffset |-> start, DataEndOffset |-> end,
                     ValueBytes |-> value_bytes, MaxX |-> width,
                     MaxY |-> height]]>>

\* Regions: None, every box with corners in -1 .. 3, and a tuple with a
\* component that is not an int.
Regions ==
    {<<>>, <<[ints |-> FALSE, box |-> <<0, 0, 1, 1>>]>>}
    \cup {<<[ints |-> TRUE, box |-> <<x0, y0, x1, y1>>]>> :
              x0 \in -1..3, y0 \in -1..3, x1 \in -1..3, y1 \in -1..3}

ChannelLists ==
    {<<>>} \cup {<<s>> : s \in SeqsUpTo(0..MaxNumChannels, 2)}

TempDirs ==
    {<<>>} \cup {<<[path |-> p, writable |-> w]>> : p \in BOOLEAN, w \in BOOLEAN}

Unread == [kind |-> "unread"]

\* Calls on a well-formed acquisition (complete or empty pixel table) with
\* drawn channels and region.
ArgumentCallsOn(coords, nc) ==
    {[f |-> TableFile(coords, nc),
      acquisition |-> AcquisitionOf(nc, <<TableOffset>>,
                                    <<TableEnd(coords, nc)>>, <<4>>,
                                    <<wh[1]>>, <<wh[2]>>),
      strict |-> TRUE, channels |-> channels, region |-> region,
      create_temp_file |-> <<>>] :
        wh \in Sides \X Sides, channels \in ChannelLists, region \in Regions}

\* Metadata values: missing or not an integer, negative, or a side.
Extents == {<<>>, <<-1>>} \cup {<<n>> : n \in Sides}

ByteSizes == {<<>>, <<0>>, <<2>>, <<4>>}

EndOffsets(coords, num_channels) ==
    {<<>>} \cup {<<n>> : n \in {0, TableOffset,
                                 TableOffset + 2 * Len(coords) * (num_channels + 3),
                                 TableEnd(coords, num_channels) - 1,
                                 TableEnd(coords, num_channels),
                                 TableEnd(coords, num_channels) + 1,
                                 TableFile(coords, num_channels).size,
                                 TableFile(coords, num_channels).size + 1}}

\* Default calls on the acquisition with num_channels channels and the
\* pixels at coords, with drawn metadata.
MetadataCallsOn(coords, num_channels) ==
    {[f |-> TableFile(coords, num_channels),
      acquisition |-> AcquisitionOf(num_channels, start, end, vb, w, h),
      strict |-> strict, channels |-> <<>>, region |-> <<>>,
      create_temp_file |-> <<>>] :
        start \in {<<>>, <<TableOffset>>},
        end \in EndOffsets(coords, num_channels),
        vb \in ByteSizes, w \in Extents, h \in Extents,
        strict \in BOOLEAN}

\* Calls without an acquisition, on a closed file, or with a directory for
\* a temporary file, on the one-channel acquisition with the pixels at coords.
OtherCallsOn(coords) ==
    {[f |-> [TableFile(coords, 1) EXCEPT !.opened = opened],
      acquisition |-> acquisition,
      strict |-> TRUE, channels |-> <<>>, region |-> region,
      create_temp_file |-> dir] :
        opened \in BOOLEAN,
        acquisition \in {<<>>, AcquisitionOf(1, <<TableOffset>>,
                                             <<TableEnd(coords, 1)>>, <<4>>,
                                             <<1>>, <<1>>)},
        region \in {<<>>} \cup {<<[ints |-> i, box |-> b]>> :
                                  i \in BOOLEAN,
                                  b \in {<<0, 0, 1, 1>>, <<1, 1, 0, 0>>}},
        dir \in TempDirs}

\* Calls with a list of channels, in any order and with repetitions, on the
\* complete 2 x 2 acquisition with MaxNumChannels + 1 channels.
SubsetCalls ==
    {[f |-> TableFile(FullScan(2, 2), MaxNumChannels + 1),
      acquisition |-> AcquisitionOf(MaxNumChannels + 1, <<TableOffset>>,
                                    <<TableEnd(FullScan(2, 2),
                                               MaxNumChannels + 1)>>,
                                    <<4>>, <<2>>, <<2>>),
      strict |-> TRUE, channels |-> <<channels>>, region |-> region,
      create_temp_file |-> <<>>] :
        channels \in SeqsUpTo(0..(MaxNumChannels + 1), 2),
        region \in {<<>>, <<[ints |-> TRUE, box |-> <<1, 0, 2, 2>>]>>}}

InitRead ==
    /\ \/ \E coords \in {<<>>, FullScan(1, 1), FullScan(2, 2)},
             nc \in 0..MaxNumChannels :
               acq \in ArgumentCallsOn(coords, nc)
       \* The channel count may be one that _parse_acquisition gives a
       \* channel table without its X, Y, Z entries.
       \/ \E coords \in SeqsUpTo(Coords \X Coords, MaxPixels),
             nc \in {-3, -1} \cup (0..MaxNumChannels) :
               acq \in MetadataCallsOn(coords, nc)
       \/ \E coords \in {<<>>, FullScan(1, 1)} : acq \in OtherCallsOn(coords)
       \/ acq \in SubsetCalls
    /\ read = Unread
    /\ file = Idle /\ schema = Idle /\ doc = Idle /\ parsed = Idle
    /\ img = Idle /\ image = Idle
    /\ fh = Idle /\ handles = Idle /\ last = Idle

\* MCDFile.read_acquisition
ReadAcquisition ==
    /\ read = Unread
    /\ read' = read_acquisition(acq)
    /\ UNCHANGED <<file, schema, doc, parsed, acq, img, image, fh, handles, last>>

NextRead == ReadAcquisition

SpecRead == InitRead /\ [][NextRead]_vars

\* ---- Claims about read_acquisition --------------------------------------

ReadCalled == read # Unread /\ read # Idle

\* The shape the caller is promised: the selected channels, and the sides
\* of the region, or of the image when no region is given.
PromisedShape(c) ==
    <<IF c.channels # <<>> THEN Len(c.channels[1])
      ELSE c.acquisition[1].num_channels,
      IF c.region # <<>> THEN c.region[1].box[4] - c.region[1].box[2]
      ELSE c.acquisition[1].metadata.MaxY[1],
      IF c.region # <<>> THEN c.region[1].box[3] - c.region[1].box[1]
      ELSE c.acquisition[1].metadata.MaxX[1]>>

HasShape(array, shape) ==
    /\ array.shape = shape
    /\ Len(array.img) = shape[1]
    /\ \A i \in 1..Len(array.img) :
        /\ Len(array.img[i]) = shape[2]
        /\ \A y \in 1..Len(array.img[i]) : Len(array.img[i][y]) = shape[3]

\* The region lies within the image: 0 <= x_min, 0 <= y_min,
\* x_max <= width, y_max <= height.
RegionFits(box, width, height) ==
    /\ 0 <= box[1] /\ 0 <= box[2]
    /\ box[3] <= width /\ box[4] <= height

\* C6: every successful read_acquisition call returns a 32-bit float array
\* of shape (num_channels, height, width); with a channel subset the first
\* dimension is len(channels), with a region the spatial dimensions are
\* (y_max - y_min, x_max - x_min).
C6_ShapeOfSuccessfulRead ==
    (ReadCalled /\ read.kind = "ok") =>
        /\ read.dtype = "float32"
        /\ HasShape(read, PromisedShape(acq))

\* A read with a channel subset of another length than num_channels and a
\* region smaller than the image has returned an array holding pixel data.
C6_Witness ==
    /\ ReadCalled /\ read.kind = "ok"
    /\ acq.channels # <<>> /\ acq.region # <<>>
    /\ Len(acq.channels[1]) # acq.acquisition[1].num_channels
    /\ RegionFits(acq.region[1].box, acq.acquisition[1].metadata.MaxX[1],
                  acq.acquisition[1].metadata.MaxY[1])
    /\ read.shape[3] < acq.acquisition[1].metadata.MaxX[1]
    /\ \E i \in 1..read.shape[1], y \in 1..read.shape[2], x \in 1..read.shape[3] :
           read.img[i][y][x] # 0

\* C7 (as stated; refuted): on a call that succeeds without the region,
\* a region with x_min >= x_max or y_min >= y_max raises the ordering error,
\* and any other region that does not fit within the resolved width and
\* height raises the region-size error; no array is returned.
C7_RegionNotFittingIsFatal ==
    (/\ ReadCalled
     /\ acq.region # <<>> /\ acq.region[1].ints
     /\ read_acquisition([acq EXCEPT !.region = <<>>]).kind = "ok") =>
        /\ RegionOutOfOrder(acq.region[1].box) =>
              read = ReadError("ValueError",
                               "region must be (x_min, y_min, x_max, y_max)")
        /\ (/\ ~RegionOutOfOrder(acq.region[1].box)
            /\ ~RegionFits(acq.region[1].box,
                           acq.acquisition[1].metadata.MaxX[1],
                           acq.acquisition[1].metadata.MaxY[1])) =>
              read = ReadError("ValueError", "Region is larger than the image")

\* A default call on an open file for an acquisition that is well formed but
\* for its empty data block: the five metadata values are integers,
\* DataStartOffset = DataEndOffset <= file size, ValueBytes > 0, MaxX >= 0,
\* MaxY >= 0 and num_channels >= 0.
EmptyBlockCall(c) ==
    /\ c.acquisition # <<>> /\ c.f.opened
    /\ c.strict /\ c.channels = <<>> /\ c.region = <<>>
    /\ c.create_temp_file = <<>>
    /\ \A key \in DOMAIN c.acquisition[1].metadata :
           c.acquisition[1].metadata[key] # <<>>
    /\ c.acquisition[1].metadata.DataStartOffset
           = c.acquisition[1].metadata.DataEndOffset
    /\ c.acquisition[1].metadata.DataEndOffset[1] <= c.f.size
    /\ c.acquisition[1].metadata.ValueBytes[1] > 0
    /\ c.acquisition[1].metadata.MaxX[1] >= 0
    /\ c.acquisition[1].metadata.MaxY[1] >= 0
    /\ c.acquisition[1].num_channels >= 0

AllZero(array) ==
    \A i \in 1..Len(array.img) : \A y \in 1..Len(array.img[i]) :
        \A x \in 1..Len(array.img[i][y]) : array.img[i][y][x] = 0

\* C10: when DataStartOffset equals DataEndOffset, read_acquisition under
\* default arguments, on an acquisition that is otherwise well formed, warns
\* of empty image data and returns an all-zero array of shape
\* (num_channels, height, width) instead of raising.
C10_EmptyBlockGivesZeros ==
    (ReadCalled /\ EmptyBlockCall(acq)) =>
        /\ read.kind = "ok"
        /\ read.warnings = <<"contains empty acquisition image data">>
        /\ HasShape(read, <<acq.acquisition[1].num_channels,
                            acq.acquisition[1].metadata.MaxY[1],
                            acq.acquisition[1].metadata.MaxX[1]>>)
        /\ AllZero(read)

\* The empty block of an acquisition with channels has been read from a
\* file that holds pixel rows at that offset.
C10_Witness ==
    /\ ReadCalled /\ EmptyBlockCall(acq)
    /\ acq.acquisition[1].num_channels >= 1
    /\ acq.acquisition[1].metadata.MaxX[1] >= 1
    /\ acq.acquisition[1].metadata.MaxY[1] >= 1
    /\ Len(acq.f.words) > HeaderWords + 1
    /\ read.kind = "ok"

\* The argument checks of read_acquisition (lines 115-131) let the call pass.
ArgumentsAccepted(c) ==
    /\ c.acquisition # <<>> /\ c.f.opened
    /\ c.region # <<>> => (c.region[1].ints /\ ~RegionOutOfOrder(c.region[1].box))
    /\ c.create_temp_file # <<>> =>
           (c.create_temp_file[1].path /\ c.create_temp_file[1].writable)

\* The five metadata values of the acquisition are integers.
MetadataResolves(c) ==
    /\ c.acquisition # <<>>
    /\ \A key \in {"DataStartOffset", "DataEndOffset", "ValueBytes",
                   "MaxX", "MaxY"} : c.acquisition[1].metadata[key] # <<>>

StartOf(c) == c.acquisition[1].metadata.DataStartOffset[1]

EndOf(c) == c.acquisition[1].metadata.DataEndOffset[1]

ValueBytesOf(c) == c.acquisition[1].metadata.ValueBytes[1]

InvalidOffsetsError ==
    ReadError("IOError", "corrupted: invalid data offsets or byte size")

\* C11 (as stated; refuted): whenever DataStartOffset < DataEndOffset or
\* ValueBytes > 0 is violated, read_acquisition is fatal and returns no array.
C11_Original_StartBelowEndOrFatal ==
    (/\ ReadCalled /\ MetadataResolves(acq)
     /\ ~(StartOf(acq) < EndOf(acq) /\ ValueBytesOf(acq) > 0)) =>
        read.kind = "error"

\* C11 (amended): whenever DataStartOffset > DataEndOffset or ValueBytes <= 0
\* the call is fatal and returns no array, and a call whose arguments are
\* accepted fails with the invalid-offsets error, raised before any pixel
\* data is mapped; equal offsets are not refused by this check.
C11_StartAboveEndOrBadBytesFatal ==
    (/\ ReadCalled /\ MetadataResolves(acq)
     /\ (StartOf(acq) > EndOf(acq) \/ ValueBytesOf(acq) <= 0)) =>
        /\ read.kind = "error"
        /\ ArgumentsAccepted(acq) => read = InvalidOffsetsError

\* A call with accepted arguments on a file holding pixel rows, whose
\* acquisition has ValueBytes = 0 and ordered offsets, has been refused.
C11_Witness ==
    /\ ReadCalled /\ MetadataResolves(acq) /\ ArgumentsAccepted(acq)
    /\ StartOf(acq) < EndOf(acq) /\ ValueBytesOf(acq) = 0
    /\ Len(acq.f.words) > HeaderWords + 1
    /\ read = InvalidOffsetsError

\* The three metadata values that locate the pixel table are integers.
OffsetsResolve(c) ==
    /\ c.acquisition # <<>>
    /\ \A key \in {"DataStartOffset", "DataEndOffset", "ValueBytes"} :
           c.acquisition[1].metadata[key] # <<>>

\* bytes_per_pixel = (num_channels + 3) * value_bytes
BytesPerPixelOf(c) == (c.acquisition[1].num_channels + 3) * ValueBytesOf(c)

\* data_size = data_end_offset - data_start_offset
DataSizeOf(c) == EndOf(c) - StartOf(c)

\* The call passes every check that precedes the data size test of line 161.
ReachesDataSizeCheck(c) ==
    /\ ArgumentsAccepted(c) /\ MetadataResolves(c)
    /\ StartOf(c) <= EndOf(c) /\ ValueBytesOf(c) > 0
    /\ EndOf(c) <= c.f.size
    /\ c.acquisition[1].num_channels + 3 > 0

InvalidDataSizeError == ReadError("IOError", "corrupted: invalid data size")

\* C12 (as stated; refuted): when the data block's length is not a multiple of
\* (num_channels + 3) * ValueBytes, one byte is added and divisibility is
\* tested again; if the length is then divisible the read proceeds, and if it
\* still is not, the call is fatal under strict validation and goes on with a
\* warning under non-strict validation.
C12_StrayByteRetried ==
    (/\ ReadCalled /\ ReachesDataSizeCheck(acq)
     /\ DataSizeOf(acq) % BytesPerPixelOf(acq) # 0) =>
        IF (DataSizeOf(acq) + 1) % BytesPerPixelOf(acq) = 0
        THEN read # InvalidDataSizeError
        ELSE IF acq.strict
        THEN read = InvalidDataSizeError
        ELSE /\ read # InvalidDataSizeError
             /\ read.kind = "ok" => read.warnings # <<>>

\* The pixel records the call maps: num_pixels rows of num_channels + 3
\* float32 values from DataStartOffset on.
RecordsOf(c) ==
    [k \in 1..(DataSizeOf(c) \div BytesPerPixelOf(c)) |->
        [col \in 1..(c.acquisition[1].num_channels + 3) |->
            c.f.words[(StartOf(c) \div 4)
                      + (k - 1) * (c.acquisition[1].num_channels + 3) + col]]]

\* The call maps at least one whole pixel record that lies within the file,
\* and asks for no region and no temporary file.
ReadsRecords(c) ==
    /\ OffsetsResolve(c) /\ ArgumentsAccepted(c)
    /\ c.region = <<>> /\ c.create_temp_file = <<>>
    /\ StartOf(c) < EndOf(c) /\ ValueBytesOf(c) > 0 /\ EndOf(c) <= c.f.size
    /\ c.acquisition[1].num_channels >= 0
    /\ DataSizeOf(c) % BytesPerPixelOf(c) = 0
    /\ StartOf(c) + 4 * (DataSizeOf(c) \div BytesPerPixelOf(c))
                      * (c.acquisition[1].num_channels + 3) <= c.f.size
    /\ c.channels # <<>> =>
           \A k \in 1..Len(c.channels[1]) :
               0 <= c.channels[1][k]
               /\ c.channels[1][k] < c.acquisition[1].num_channels

\* C13 (as stated; refuted): when width x height differs from the number of
\* pixel records in the data block, the read is fatal under strict validation
\* and gives a warning under non-strict validation.
C13_RecordCountMismatchReported ==
    (/\ ReadCalled /\ ReadsRecords(acq) /\ MetadataResolves(acq)
     /\ acq.acquisition[1].metadata.MaxX[1] * acq.acquisition[1].metadata.MaxY[1]
            # Len(RecordsOf(acq))) =>
        IF acq.strict THEN read.kind = "error"
        ELSE read.kind = "ok" => read.warnings # <<>>

\* np.amax over column col (1 = X, 2 = Y) of the pixel records
MaxObserved(c, col) == Max({RecordsOf(c)[k][col] : k \in 1..Len(RecordsOf(c))})

\* MaxX and MaxY are both present and no pixel record lies outside them.
ExtentConsistent(c) ==
    /\ c.acquisition[1].metadata.MaxX # <<>>
    /\ c.acquisition[1].metadata.MaxY # <<>>
    /\ c.acquisition[1].metadata.MaxX[1] > MaxObserved(c, 1)
    /\ c.acquisition[1].metadata.MaxY[1] > MaxObserved(c, 2)

\* C14 (as stated; refuted): width and height are MaxX and MaxY when these are
\* present and consistent with the pixel records; when they are missing or
\* inconsistent with the largest observed coordinate, the read falls back to
\* largest observed coordinate + 1 with a warning instead of failing.
C14_ExtentFallsBackToObserved ==
    (ReadCalled /\ ReadsRecords(acq)) =>
        /\ read.kind = "ok"
        /\ IF ExtentConsistent(acq)
           THEN /\ read.shape[3] = acq.acquisition[1].metadata.MaxX[1]
                /\ read.shape[2] = acq.acquisition[1].metadata.MaxY[1]
           ELSE /\ read.shape[3] = MaxObserved(acq, 1) + 1
                /\ read.shape[2] = MaxObserved(acq, 2) + 1
                /\ read.warnings # <<>>

\* The same call without a channel subset.
FullRead(c) == read_acquisition([c EXCEPT !.channels = <<>>])

\* not all(0 <= c < num_channels for c in channels)
SomeChannelInvalid(c) ==
    \E k \in 1..Len(c.channels[1]) :
        ~(0 <= c.channels[1][k]
          /\ c.channels[1][k] < c.acquisition[1].num_channels)

\* C20: a read with a channel subset is fatal if an index lies outside
\* [0, num_channels) (with the invalid-indices error when the read without
\* the subset succeeds); otherwise, when the read without the subset
\* succeeds, it succeeds and plane i of its result is plane channels[i] of
\* that read, order and repetitions preserved.
C20_SubsetPlanesAreFullReadPlanes ==
    (ReadCalled /\ acq.acquisition # <<>> /\ acq.channels # <<>>) =>
        IF SomeChannelInvalid(acq)
        THEN /\ read.kind = "error"
             /\ FullRead(acq).kind = "ok" =>
                    read = ReadError("ValueError", "Invalid channel indices")
        ELSE FullRead(acq).kind = "ok" =>
                 /\ read.kind = "ok"
                 /\ Len(read.img) = Len(acq.channels[1])
                 /\ \A i \in 1..Len(acq.channels[1]) :
                        read.img[i] = FullRead(acq).img[acq.channels[1][i] + 1]

\* A read of two channels asked for in descending order has returned two
\* different planes.
C20_Witness ==
    /\ ReadCalled /\ acq.acquisition # <<>> /\ acq.channels # <<>>
    /\ Len(acq.channels[1]) = 2 /\ acq.channels[1][1] > acq.channels[1][2]
    /\ read.kind = "ok" /\ read.img[1] # read.img[2]
    /\ read.img[1] = FullRead(acq).img[acq.channels[1][1] + 1]

\* ---- Documents whose acquisitions have drawn data blocks -----------------

\* Bound: a slide holds at most MaxOverlapAcquisitions acquisitions.
MaxOverlapAcquisitions == 2

\* The offsets a data block may start or end at.
OverlapOffsets == {5, 10, 20, 30, 40, 100}

\* Data blocks [start, end), empty ones included.
Blocks == {b \in OverlapOffsets \X OverlapOffsets : b[1] <= b[2]}

\* An Acquisition element with the data block given; its metadata holds the
\* offsets as the text of the XML.
BlockAcquisitionElem(id, block) ==
    [ID |-> id,
     AcquisitionROIID |-> 1,
     metadata |-> [DataStartOffset |-> DecimalText(block[1]),
                   DataEndOffset |-> DecimalText(block[2])]]

\* One slide, one panorama, one region, and acquisitions 1 .. Len(blocks).
BlockDoc(blocks) ==
    [Slide |-> <<[ID |-> 0]>>,
     Panorama |-> <<[ID |-> 1, SlideID |-> 0, Type |-> "Instrument"]>>,
     AcquisitionROI |-> <<[ID |-> 1, PanoramaID |-> 1]>>,
     Acquisition |-> [k \in 1..Len(blocks) |-> BlockAcquisitionElem(k, blocks[k])],
     AcquisitionChannel |->
        Flatten([k \in 1..Len(blocks) |-> ChannelElems(k, GoodChannels, FALSE)])]

InitOverlap ==
    /\ \E n \in 0..MaxOverlapAcquisitions :
       \E blocks \in [1..n -> Blocks] : doc = BlockDoc(blocks)
    /\ parsed = Unparsed
    /\ file = Idle /\ schema = Idle /\ acq = Idle /\ read = Idle
    /\ img = Idle /\ image = Idle
    /\ fh = Idle /\ handles = Idle /\ last = Idle

NextOverlap == ParseSlides

SpecOverlap == InitOverlap /\ [][NextOverlap]_vars

\* ---- Claims about the overlap warnings -----------------------------------

\* int(text) of a decimal text
IntOf(text) == DecimalValue(text)

\* The half-open integer intervals [DataStartOffset, DataEndOffset) of two
\* Acquisition elements share a byte.
BlocksOverlap(a, b) ==
    Max({IntOf(a.metadata.DataStartOffset), IntOf(b.metadata.DataStartOffset)})
        < Min({IntOf(a.metadata.DataEndOffset), IntOf(b.metadata.DataEndOffset)})

\* C15 (as stated; refuted): _parse_slide warns, naming both ids, for every
\* pair of acquisitions of a slide whose half-open integer intervals
\* [DataStartOffset, DataEndOffset) overlap, and for no other pair; the
\* warning is never fatal.
C15_WarningsAreOverlappingPairs ==
    (parsed # Unparsed /\ parsed # Idle) =>
        /\ parsed.kind = "ok"
        /\ {parsed.warnings[k] : k \in 1..Len(parsed.warnings)}
               = {<<doc.Acquisition[i].ID, doc.Acquisition[j].ID>> :
                     <<i, j>> \in {pr \in (1..Len(doc.Acquisition))
                                            \X (1..Len(doc.Acquisition)) :
                                      /\ pr[1] < pr[2]
                                      /\ BlocksOverlap(doc.Acquisition[pr[1]],
                                                       doc.Acquisition[pr[2]])}}

\* ---- Claims about the links of the parsed graph --------------------------

Range(seq) == {seq[k] : k \in 1..Len(seq)}

\* The positions of the Panorama elements of a slide that are not 'Default'.
RealPanoramaElems(d, slide_id) ==
    {i \in 1..Len(d.Panorama) :
        d.Panorama[i].SlideID = slide_id /\ d.Panorama[i].Type # "Default"}

\* The Acquisition elements reachable through the regions of the 'Default'
\* Panorama elements of a slide.
DefaultAcquisitionElems(d, slide_id) ==
    {e \in Range(d.Acquisition) :
        \E i \in 1..Len(d.Panorama), r \in Range(d.AcquisitionROI) :
            /\ d.Panorama[i].SlideID = slide_id
            /\ d.Panorama[i].Type = "Default"
            /\ r.PanoramaID = d.Panorama[i].ID
            /\ e.AcquisitionROIID = r.ID}

\* C19: in the parsed graph, a 'Default' Panorama element gives no Panorama
\* entity, yet the acquisitions reachable through its regions are in
\* slide.acquisitions with no panorama; every acquisition (and panorama) of a
\* slide's lists names that slide; and for every panorama p of a slide, an
\* acquisition is in p.acquisitions exactly when its panorama is p.
C19_GraphLinksConsistent ==
    (parsed # Unparsed /\ parsed # Idle /\ parsed.kind = "ok") =>
        \A s \in Range(parsed.slides) :
            /\ {p.elem : p \in Range(s.panoramas)} = RealPanoramaElems(doc, s.id)
            /\ \A e \in DefaultAcquisitionElems(doc, s.id) :
                   \E a \in Range(s.acquisitions) :
                       a.id = e.ID /\ a.panorama = <<>>
            /\ \A a \in Range(s.acquisitions) : a.slide = s.id
            /\ \A p \in Range(s.panoramas) :
                   /\ p.slide = s.id
                   /\ Range(p.acquisitions) \subseteq Range(s.acquisitions)
                   /\ \A a \in Range(s.acquisitions) :
                          a \in Range(p.acquisitions) <=> a.panorama = <<p.elem>>

\* A document without repeated IDs has been parsed: a slide whose only
\* panorama is 'Default' has no Panorama entity and holds the acquisition
\* reached through that panorama's region, with no panorama.
C19_Witness ==
    /\ parsed # Unparsed /\ parsed # Idle /\ parsed.kind = "ok"
    /\ UniqueIds(doc)
    /\ \E s \in Range(parsed.slides) :
           /\ s.panoramas = <<>>
           /\ DefaultAcquisitionElems(doc, s.id) # {}
           /\ \E a \in Range(s.acquisitions) :
                  a.panorama = <<>> /\ a.slide = s.id

\* Ascending, equal neighbours allowed: what list.sort(key=id) leaves.
Ascending(ids) == \A k \in 1..(Len(ids) - 1) : ids[k] <= ids[k + 1]

\* C24 (as stated; refuted): after parse_slides every list of the graph is
\* sorted ascending by id, whatever the order of the elements in the document:
\* the slide list, each slide's panoramas and acquisitions, and each
\* panorama's acquisitions.
C24_EveryListSortedById ==
    (parsed # Unparsed /\ parsed # Idle /\ parsed.kind = "ok") =>
        /\ Ascending(Ids(parsed.slides))
        /\ \A s \in Range(parsed.slides) :
            /\ Ascending(Ids(s.panoramas))
            /\ Ascending(Ids(s.acquisitions))
            /\ \A p \in Range(s.panoramas) : Ascending(Ids(p.acquisitions))

\* Panorama IDs are unique within each slide (they may repeat across slides),
\* and no two Slide, AcquisitionROI or Acquisition elements share an ID.
PanoramaIdsUniquePerSlide(d) ==
    /\ Distinct(d.Slide) /\ Distinct(d.AcquisitionROI) /\ Distinct(d.Acquisition)
    /\ \A i, j \in 1..Len(d.Panorama) :
           (d.Panorama[i].ID = d.Panorama[j].ID
                /\ d.Panorama[i].SlideID = d.Panorama[j].SlideID) => i = j

\* C30 (as stated; refuted): when panorama IDs are unique within each slide
\* but may repeat across slides, each Acquisition element gives an entity to
\* at most one slide: no two slides hold an acquisition made from the same
\* element.
C30_AcquisitionInAtMostOneSlide ==
    (/\ parsed # Unparsed /\ parsed # Idle /\ parsed.kind = "ok"
     /\ PanoramaIdsUniquePerSlide(doc)) =>
        \A s, t \in Range(parsed.slides) :
            s.id # t.id =>
                Range(Ids(s.acquisitions)) \cap Range(Ids(t.acquisitions)) = {}

\* The records of the byte range that lie on cell (x, y), 0-based.
RecordsAt(c, x, y) ==
    {k \in 1..Len(RecordsOf(c)) :
        RecordsOf(c)[k][1] = x /\ RecordsOf(c)[k][2] = y}

WholeRead(c) == read_acquisition([c EXCEPT !.region = <<>>])

\* C23 (as stated; refuted): for every region read_acquisition accepts, the
\* region read is the crop of the read without a region, translated into the
\* cropped frame: every cell (c, y, x) of the result is cell
\* (c, y + y_min, x + x_min) of the whole image.
C23_RegionReadIsCropOfWholeRead ==
    (/\ ReadCalled /\ acq.region # <<>> /\ read.kind = "ok"
     /\ WholeRead(acq).kind = "ok") =>
        \A ch \in 1..read.shape[1], y \in 1..read.shape[2],
           x \in 1..read.shape[3] :
            /\ y + acq.region[1].box[2] \in 1..WholeRead(acq).shape[2]
            /\ x + acq.region[1].box[1] \in 1..WholeRead(acq).shape[3]
            /\ read.img[ch][y][x]
                   = WholeRead(acq).img[ch][y + acq.region[1].box[2]]
                                           [x + acq.region[1].box[1]]

\* ---- The life cycle of an MCDFile object -----------------------------------

\* Bound: open() makes at most MaxOpens handles on the object.
MaxOpens == 2

\* The pixels of the acquisition held by the drawn files.
SessionScan == FullScan(1, 1)

\* A file on disk.  bytes is the part the schema locator searches; words and
\* size are the pixel table, followed by the image blobs, as read_acquisition
\* and _read_image see them.
SessionFile(bytes) ==
    LET words == TableFile(SessionScan, 1).words
                 \o [k \in 1..(HeaderSkip \div 4) |-> 7]
    IN  [bytes |-> bytes, words |-> words, size |-> 4 * Len(words)]

\* The documents of the drawn schemas: one acquisition; none; an acquisition
\* whose first channel is not X; one whose fourth channel name does not match
\* the pattern; one whose channel table is X alone.
SchemaDocs ==
    <<BlockDoc(<<<<10, 20>>>>),
      BlockDoc(<<>>),
      ChannelDoc(<<NameY>>, FALSE, FALSE),
      ChannelDoc(<<NameX, NameY, NameZ, NameMalformed>>, FALSE, FALSE),
      ChannelDoc(<<NameX>>, FALSE, FALSE)>>

\* The character that stands for the text of a schema that is not well-formed.
NotWellFormed == 122

\* A schema with both markers; the character between them stands for the
\* text of the k-th document.
SchemaBytes(k) ==
    start_sub_encoded \o EncodeUtf16le(<<96 + k>>) \o end_sub_encoded

\* ET.fromstring(schema_xml) in MCDParser.__init__: <<d>> for the document
\* the text holds, <<>> when it raises ParseError.
FromString(schema_xml) ==
    LET text == SubSeq(schema_xml, Len(start_sub) + 1,
                       Len(schema_xml) - Len(end_sub))
    IN  IF Len(text) = 1 /\ text[1] - 96 \in 1..Len(SchemaDocs)
        THEN <<SchemaDocs[text[1] - 96]>>
        ELSE <<>>

\* Files that open; files whose schema cannot be located (no start marker, no
\* end marker, no bytes at all); files whose schema does not parse or parses
\* to an acquisition without its X, Y, Z channels; and a file whose schema is
\* not well-formed XML.
SessionFiles ==
    {SessionFile(SchemaBytes(k)) : k \in 1..Len(SchemaDocs)}
    \cup {SessionFile(<<7>>),
          SessionFile(start_sub_encoded),
          SessionFile(<<>>),
          SessionFile(start_sub_encoded \o EncodeUtf16le(<<NotWellFormed>>)
                      \o end_sub_encoded)}

\* raise IOError(f"MCD file '{self.path.name}' has not been opened")
NotOpened == [kind |-> "error", type |-> "IOError", message |-> "has not been opened"]

\* What open() does after the handle is made: the schema text and the slide
\* list it assigns (<<>> for an assignment it does not reach) and how it ends.
OpenFailure(type, at, schema_xml, cause) ==
    [kind |-> "error", type |-> type, at |-> at, cause |-> cause,
     schema_xml |-> schema_xml, slides |-> <<>>]

\* Lines 72-78: the slide list is assigned unless MCDParserError is raised,
\* which open() turns into IOError 'error parsing slide information from
\* MCD-XML', raised from the parser's error.
ParseOutcome(schema_xml, r) ==
    IF r.kind = "error"
    THEN OpenFailure("IOError", "parse_slides", <<schema_xml>>, r.error)
    ELSE [kind |-> "ok", type |-> "None", at |-> "", cause |-> "",
          schema_xml |-> <<schema_xml>>, slides |-> <<r.slides>>]

\* Lines 71-78 of open().  An exception of _read_schema_xml, and the
\* ParseError of ET.fromstring in MCDParser.__init__, leave open() as they are.
OpenOutcome(s) ==
    IF s.kind = "error" THEN OpenFailure(s.type, "_read_schema_xml", <<>>, "")
    ELSE IF FromString(s.text) = <<>>
    THEN OpenFailure("ParseError", "MCDParser", <<s.text>>, "")
    ELSE ParseOutcome(s.text, parse_slides(FromString(s.text)[1]))

\* self._fh.close() for the handle self._fh names, if any.
CloseHandle(hs, f) ==
    IF f = <<>> THEN hs ELSE [hs EXCEPT ![f[1]].open = FALSE]

\* self._fh is None
NoHandle == [set |-> FALSE, open |-> FALSE, pos |-> 0]

\* The handle a call works with: whether self._fh is set, whether the handle
\* it names is open, and its cursor.
CurrentHandle == IF fh = <<>> THEN NoHandle ELSE handles[fh[1]]

Call(op, args, result) ==
    [op |-> op, args |-> args, result |-> result, pos |-> CurrentHandle.pos]

\* MCDFile.__init__
InitSession ==
    /\ file \in SessionFiles
    /\ fh = <<>> /\ schema = <<>> /\ parsed = <<>>
    /\ handles = <<>>
    /\ last = [op |-> "__init__", args |-> <<>>, result |-> [kind |-> "ok"],
               pos |-> 0]
    /\ doc = Idle /\ acq = Idle /\ read = Idle /\ img = Idle /\ image = Idle

\* State changes of open() once the builtin open() has made a handle, given
\* how the rest of it ends.
OpenWith(out) ==
    /\ handles' = Append(CloseHandle(handles, fh), FreshHandle)
    /\ fh' = <<Len(handles) + 1>>
    /\ schema' = IF out.schema_xml # <<>> THEN out.schema_xml ELSE schema
    /\ parsed' = IF out.slides # <<>> THEN out.slides ELSE parsed
    /\ last' = Call("open", <<>>, [kind |-> out.kind, type |-> out.type,
                                   at |-> out.at, cause |-> out.cause])

\* Lines 68-70 when the builtin open() raises OSError (the file is gone or
\* cannot be read): the handle self._fh names has been closed and self._fh
\* is not assigned.
OpenRefused ==
    /\ handles' = CloseHandle(handles, fh)
    /\ last' = Call("open", <<>>, [kind |-> "error", type |-> "OSError",
                                   at |-> "open", cause |-> ""])
    /\ UNCHANGED <<fh, schema, parsed>>

\* MCDFile.open, and __enter__, which only calls it.  accessible tells
\* whether the builtin open() of line 70 finds the file and may read it.
Open ==
    /\ \E accessible \in BOOLEAN :
           IF accessible
           THEN /\ Len(handles) < MaxOpens
                /\ OpenWith(OpenOutcome(read_schema_xml(file.bytes)))
           ELSE OpenRefused
    /\ UNCHANGED <<file, doc, acq, read, img, image>>

\* The file at the path is replaced by another one while the object holds
\* no open handle on it.
Rewrite ==
    /\ \A k \in 1..Len(handles) : ~handles[k].open
    /\ \E f \in SessionFiles \ {file} : file' = f
    /\ last' = Call("rewrite", <<>>, [kind |-> "ok"])
    /\ UNCHANGED <<schema, doc, parsed, acq, read, img, image, fh, handles>>

\* MCDFile.close, and __exit__, which only calls it.
Close ==
    /\ handles' = CloseHandle(handles, fh)
    /\ fh' = <<>>
    /\ last' = Call("close", <<>>, [kind |-> "ok"])
    /\ UNCHANGED <<file, schema, doc, parsed, acq, read, img, image>>

\* The schema_xml property
GetSchemaXml ==
    /\ last' = Call("schema_xml", <<>>,
                    IF schema = <<>> THEN NotOpened
                    ELSE [kind |-> "ok", value |-> schema[1]])
    /\ UNCHANGED <<file, schema, doc, parsed, acq, read, img, image, fh, handles>>

\* The slides property
GetSlides ==
    /\ last' = Call("slides", <<>>,
                    IF parsed = <<>> THEN NotOpened
                    ELSE [kind |-> "ok", value |-> parsed[1]])
    /\ UNCHANGED <<file, schema, doc, parsed, acq, read, img, image, fh, handles>>

\* The acquisitions the reads are called with: None, the acquisition of the
\* file, and one whose data offsets are the wrong way round.
SessionAcquisitions ==
    {<<>>,
     AcquisitionOf(1, <<TableOffset>>, <<TableEnd(SessionScan, 1)>>,
                   <<4>>, <<1>>, <<1>>),
     AcquisitionOf(1, <<TableEnd(SessionScan, 1)>>, <<TableOffset>>,
                   <<4>>, <<1>>, <<1>>)}

\* The read_acquisition call on the object as it is, with default arguments.
AcquisitionCall(h, acquisition) ==
    [f |-> [opened |-> h.set, size |-> file.size, words |-> file.words],
     acquisition |-> acquisition, strict |-> TRUE, channels |-> <<>>,
     region |-> <<>>, create_temp_file |-> <<>>]

\* The call reaches self._fh.seek(0) and np.memmap (lines 181-188).
ReachesMemmap(c) ==
    /\ ReachesDataSizeCheck(c)
    /\ DataSizeOf(c) % BytesPerPixelOf(c) = 0 \/ ~c.strict
    /\ c.channels # <<>> => ~SomeChannelInvalid(c)

\* self._fh.seek(0) on a handle that has been closed
SeekOfClosedFile == ReadError("ValueError", "seek of closed file")

\* read_acquisition on the object with the handle h: the seek of line 181
\* raises when self._fh names a closed handle.
ReadAcquisitionOn(h, acquisition) ==
    IF h.set /\ ~h.open /\ ReachesMemmap(AcquisitionCall(h, acquisition))
    THEN SeekOfClosedFile
    ELSE read_acquisition(AcquisitionCall(h, acquisition))

\* The cursor after read_acquisition: np.memmap measures the file with
\* fid.seek(0, 2), which leaves the cursor at the end of the file.
CursorAfterMemmap(h, c) ==
    IF ReachesMemmap(c) /\ h.open THEN c.f.size ELSE h.pos

\* The cursor after an image read: the end of the bytes read, if any were.
CursorAfterImage(h, result) ==
    IF result.range # <<>> THEN result.range[2] ELSE h.pos

\* self._fh keeps its handle; only the cursor of that handle moves.
MoveCursor(pos) ==
    /\ handles' = IF fh = <<>> THEN handles
                  ELSE [handles EXCEPT ![fh[1]].pos = pos]
    /\ UNCHANGED <<file, schema, doc, parsed, acq, read, img, image, fh>>

\* MCDFile.read_acquisition on the object
CallReadAcquisition ==
    \E acquisition \in SessionAcquisitions :
        /\ last' = Call("read_acquisition", acquisition,
                        ReadAcquisitionOn(CurrentHandle, acquisition))
        /\ MoveCursor(CursorAfterMemmap(CurrentHandle,
                                        AcquisitionCall(CurrentHandle, acquisition)))

\* The entities the image reads are called with: one without an image, and
\* two whose images lie in the file.
SessionImageOffsets ==
    {<<<<0>>, <<0>>>>, <<<<1>>, <<HeaderSkip + 4>>>>, <<<<2>>, <<HeaderSkip + 6>>>>}

SessionEntity(kind, start_key, end_key, offsets) ==
    [kind |-> kind, id |-> 1, decodes |-> TRUE, file_size |-> file.size,
     metadata |-> (start_key :> offsets[1]) @@ (end_key :> offsets[2])]

\* One image read on the object: the outcome, and the cursor it leaves.
CallImage(op, e, raw, result) ==
    /\ last' = Call(op, [entity |-> e, raw |-> raw], result)
    /\ MoveCursor(CursorAfterImage(CurrentHandle, result))

\* MCDFile.read_slide on the object
CallReadSlide ==
    \E offsets \in SessionImageOffsets, raw \in BOOLEAN :
        LET e == SessionEntity("slide", "ImageStartOffset", "ImageEndOffset",
                               offsets)
        IN  CallImage("read_slide", e, raw,
                      ReadEmbeddedImageFrom(CurrentHandle, e, "ImageStartOffset",
                                            "ImageEndOffset", "slide", raw))

\* MCDFile.read_panorama on the object
CallReadPanorama ==
    \E offsets \in SessionImageOffsets, raw \in BOOLEAN :
        LET e == SessionEntity("panorama", "ImageStartOffset", "ImageEndOffset",
                               offsets)
        IN  CallImage("read_panorama", e, raw,
                      ReadEmbeddedImageFrom(CurrentHandle, e, "ImageStartOffset",
                                            "ImageEndOffset", "panorama", raw))

\* MCDFile.read_before_ablation_image on the object
CallReadBeforeAblationImage ==
    \E offsets \in SessionImageOffsets, raw \in BOOLEAN :
        LET e == SessionEntity("acquisition", "BeforeAblationImageStartOffset",
                               "BeforeAblationImageEndOffset", offsets)
        IN  CallImage("read_before_ablation_image", e, raw,
                      ReadEmbeddedImageFrom(CurrentHandle, e,
                                            "BeforeAblationImageStartOffset",
                                            "BeforeAblationImageEndOffset",
                                            "before-ablation acquisition", raw))

\* MCDFile.read_after_ablation_image on the object
CallReadAfterAblationImage ==
    \E offsets \in SessionImageOffsets, raw \in BOOLEAN :
        LET e == SessionEntity("acquisition", "AfterAblationImageStartOffset",
                               "AfterAblationImageEndOffset", offsets)
        IN  CallImage("read_after_ablation_image", e, raw,
                      ReadEmbeddedImageFrom(CurrentHandle, e,
                                            "AfterAblationImageStartOffset",
                                            "AfterAblationImageEndOffset",
                                            "after-ablation acquisition", raw))

NextSession ==
    \/ Open
    \/ Rewrite
    \/ Close
    \/ GetSchemaXml
    \/ GetSlides
    \/ CallReadAcquisition
    \/ CallReadSlide
    \/ CallReadPanorama
    \/ CallReadBeforeAblationImage
    \/ CallReadAfterAblationImage

SpecSession == InitSession /\ [][NextSession]_vars

\* ---- Claims about the life cycle -------------------------------------------

ImageReadOps ==
    {"read_slide", "read_panorama", "read_before_ablation_image",
     "read_after_ablation_image"}

ReadOps == ImageReadOps \cup {"read_acquisition"}

\* The outcome of an image read call on the handle h.
ImageResultOn(h, call) ==
    IF call.op = "read_slide"
    THEN ReadEmbeddedImageFrom(h, call.args.entity, "ImageStartOffset",
                               "ImageEndOffset", "slide", call.args.raw)
    ELSE IF call.op = "read_panorama"
    THEN ReadEmbeddedImageFrom(h, call.args.entity, "ImageStartOffset",
                               "ImageEndOffset", "panorama", call.args.raw)
    ELSE IF call.op = "read_before_ablation_image"
    THEN ReadEmbeddedImageFrom(h, call.args.entity,
                               "BeforeAblationImageStartOffset",
                               "BeforeAblationImageEndOffset",
                               "before-ablation acquisition", call.args.raw)
    ELSE ReadEmbeddedImageFrom(h, call.args.entity,
                               "AfterAblationImageStartOffset",
                               "AfterAblationImageEndOffset",
                               "after-ablation acquisition", call.args.raw)

\* The outcome of a read call on the handle h.
ResultOn(h, call) ==
    IF call.op = "read_acquisition"
    THEN ReadAcquisitionOn(h, call.args)
    ELSE ImageResultOn(h, call)

\* No handle made by open() is open.
NoHandleOpen == \A k \in 1..Len(handles) : ~handles[k].open

\* C16 (as stated; refuted): after close() the handle is released and the
\* slide graph and the schema text are gone: until the next successful open()
\* the slides and schema_xml accessors and every read behave as on an object
\* that was never opened.
C16_ClosedBehavesAsNeverOpened ==
    (fh = <<>> /\ last # Idle) =>
        /\ NoHandleOpen
        /\ last.op \in {"schema_xml", "slides"} => last.result = NotOpened
        /\ last.op \in ReadOps =>
               last.result = ResultOn(NoHandle, last)

\* C17 (as stated; refuted): when open() (or __enter__) raises while locating
\* the schema or while parsing it, no handle it opened remains open.
C17_FailedOpenLeavesNoHandle ==
    (last # Idle /\ last.op = "open" /\ last.result.kind = "error") =>
        NoHandleOpen

\* C18: in an open session every read_acquisition, read_slide, read_panorama,
\* read_before_ablation_image and read_after_ablation_image call returns
\* what the same call returns alone on the file just opened, whatever calls
\* came before it and wherever they left the cursor.
C18_ReadsRepeatable ==
    (last # Idle /\ CurrentHandle.open /\ last.op \in ReadOps) =>
        last.result = ResultOn(FreshHandle, last)

\* On a file that opened, an image has been read after earlier reads had
\* left the cursor elsewhere than at the start of the file and elsewhere
\* than at the image.
C18_Witness ==
    /\ last # Idle /\ CurrentHandle.open /\ parsed # <<>>
    /\ last.op = "read_panorama" /\ last.result.kind = "ok"
    /\ last.pos # 0 /\ last.pos # last.result.range[1]
    /\ last.result.range[2] > last.result.range[1]

\* C27 (as stated; refuted): whatever open() and close() calls are made on
\* the object, open() calls that raise included, at most one handle made by
\* the object is open, and whenever self._fh is set (the 'has not been
\* opened' check passes) the handle it names is open.
C27_HandleFieldNamesOpenHandle ==
    /\ Cardinality({k \in 1..Len(handles) : handles[k].open}) <= 1
    /\ fh # <<>> => handles[fh[1]].open

\* C28 (as stated; refuted): the schema text and the slide list the object
\* exposes come from one open() call: the slide list is the one parsed from
\* the schema text stored.
C28_SlidesParsedFromStoredSchema ==
    (schema # <<>> /\ parsed # <<>>) =>
        /\ FromString(schema[1]) # <<>>
        /\ parse_slides(FromString(schema[1])[1]).kind = "ok"
        /\ parsed[1] = parse_slides(FromString(schema[1])[1]).slides

\* The document of the file at the path, if its schema is found and is
\* well-formed; <<>> otherwise.
DocumentOf(f) ==
    IF read_schema_xml(f.bytes).kind = "error" THEN <<>>
    ELSE FromString(read_schema_xml(f.bytes).text)

\* Some acquisition's first three channel entries are not X, Y, Z.
FirstThreeDefect(d) ==
    \E k \in 1..Len(d.Acquisition) :
        ~FirstThreeAreXYZ(EntryNames(d, d.Acquisition[k].ID))

\* Some acquisition has a channel name, other than X, Y, Z, that does not
\* match the pattern.
PatternDefect(d) ==
    \E k \in 1..Len(d.Acquisition) :
        \E name \in Range(EntryNames(d, d.Acquisition[k].ID)) :
            name \notin {NameX, NameY, NameZ} /\ ChannelRegexMatch(name) = <<>>

FirstThreeMessages ==
    {"First channel should be named 'X'",
     "Second channel should be named 'Y'",
     "Third channel should be named 'Z'"}

\* open() ended in the IOError 'error parsing slide information from MCD-XML'
\* raised from a parser error with one of the messages.
WrappedParserError(messages) ==
    /\ last.result.kind = "error" /\ last.result.type = "IOError"
    /\ last.result.at = "parse_slides"
    /\ last.result.cause \in messages

\* C21 (as stated; refuted): a defect of the metadata of one of the listed
\* kinds (here: first three channels not X, Y, Z; a channel name that does not
\* match the pattern) is fatal, its message tells the kind, and it reaches
\* the caller of open() as the 'error parsing slide information from MCD-XML'
\* IOError, not as a bare exception.
C21_MetadataDefectsWrapped ==
    (/\ last # Idle /\ last.op = "open" /\ last.result.at # "open"
     /\ DocumentOf(file) # <<>>) =>
        /\ FirstThreeDefect(DocumentOf(file)[1])
               => WrappedParserError(FirstThreeMessages)
        /\ (PatternDefect(DocumentOf(file)[1])
                /\ ~FirstThreeDefect(DocumentOf(file)[1]))
               => WrappedParserError({"Cannot extract channel information"})

\* ---- The bytes read_acquisition maps --------------------------------------

\* num_pixels = data_size // bytes_per_pixel, data_size having been raised by
\* one when it is not a multiple of bytes_per_pixel (lines 161-167, 178).
NumPixelsOf(c) ==
    (IF DataSizeOf(c) % BytesPerPixelOf(c) = 0 THEN DataSizeOf(c)
     ELSE DataSizeOf(c) + 1) \div BytesPerPixelOf(c)

\* The end of the bytes of the array np.memmap makes: num_pixels rows of
\* num_channels + 3 float32 values from DataStartOffset on.
MappedEnd(c) ==
    StartOf(c) + 4 * NumPixelsOf(c) * (c.acquisition[1].num_channels + 3)

MmapError == ReadError("ValueError", "mmap length is greater than file size")

\* C29 (as stated; refuted): in every call of read_acquisition that passes
\* validation and maps the file, strict or not and whatever positive
\* ValueBytes is, the bytes mapped lie within
\* [DataStartOffset, DataEndOffset), one stray byte allowed, and within the
\* file.  Stated for acquisitions whose channel table holds X, Y and Z.
C29_MappedBytesWithinBlock ==
    (/\ ReadCalled /\ ReachesMemmap(acq) /\ read # MmapError
     /\ acq.acquisition[1].num_channels >= 0) =>
        /\ MappedEnd(acq) <= EndOf(acq) + 1
        /\ MappedEnd(acq) <= acq.f.size

\* ------------------------------------------------------------------------
\* Derived values of an Acquisition: data/acquisition.py
\* ------------------------------------------------------------------------
\* An entity's metadata maps a key to <<>> (no such key) or <<text>>, the
\* text of the XML element.  A float is kept as the integer number of
\* millionths it equals, which is exact for texts with up to three decimals
\* and for their division by 1000.

None == [kind |-> "none"]

ValueError == [kind |-> "error", type |-> "ValueError"]

\* The text is digits, or digits "." and one to three digits.
IsNumberText(text) ==
    LET n == RunLength(text, 1, Digits)
    IN  /\ n >= 1
        /\ \/ n = Len(text)
           \/ /\ n < Len(text) /\ text[n + 1] = 46
              /\ Len(text) - n - 1 \in 1..3
              /\ RunLength(text, n + 2, Digits) = Len(text) - n - 1

RECURSIVE PowerOfTen(_)
PowerOfTen(n) == IF n = 0 THEN 1 ELSE 10 * PowerOfTen(n - 1)

\* float(text), in millionths, for a text that IsNumberText
FloatOf(text) ==
    LET n == RunLength(text, 1, Digits)
    IN  1000000 * DecimalValue(SubSeq(text, 1, n))
        + (IF n = Len(text) THEN 0
           ELSE DecimalValue(SubSeq(text, n + 2, Len(text)))
                * PowerOfTen(6 - (Len(text) - n - 1)))

\* int(text), for a text of digits
IsIntText(text) == text # <<>> /\ RunLength(text, 1, Digits) = Len(text)

Abs(v) == IF v < 0 THEN -v ELSE v

\* Acquisition.width_px and height_px: int(metadata.get(key)), or None.
\* <<>> for None, <<n>> otherwise; the drawn MaxX and MaxY are digits.
width_px(a) ==
    IF a.metadata.MaxX = <<>> THEN <<>>
    ELSE <<DecimalValue(a.metadata.MaxX[1])>>

height_px(a) ==
    IF a.metadata.MaxY = <<>> THEN <<>>
    ELSE <<DecimalValue(a.metadata.MaxY[1])>>

\* Acquisition.pixel_size_x_um and pixel_size_y_um
pixel_size_x_um(a) ==
    IF a.metadata.AblationDistanceBetweenShotsX = <<>> THEN <<>>
    ELSE <<FloatOf(a.metadata.AblationDistanceBetweenShotsX[1])>>

pixel_size_y_um(a) ==
    IF a.metadata.AblationDistanceBetweenShotsY = <<>> THEN <<>>
    ELSE <<FloatOf(a.metadata.AblationDistanceBetweenShotsY[1])>>

\* Acquisition.width_um and height_um
width_um(a) ==
    IF width_px(a) # <<>> /\ pixel_size_x_um(a) # <<>>
    THEN <<width_px(a)[1] * pixel_size_x_um(a)[1]>>
    ELSE <<>>

height_um(a) ==
    IF height_px(a) # <<>> /\ pixel_size_y_um(a) # <<>>
    THEN <<height_px(a)[1] * pixel_size_y_um(a)[1]>>
    ELSE <<>>

\* if abs(x1 / 1000.0 - x3) < abs(x1 - x3): x1 /= 1000.0
FixStart(start, end) ==
    IF Abs(start \div 1000 - end) < Abs(start - end) THEN start \div 1000
    ELSE start

\* Lines 176-203 of roi_coords_um: the four floats, the correction of the
\* start position, and the tuple returned.  Of the four points the first
\* and the third are kept; the second and the fourth are the rotated corners
\* of the rectangle, which need cos, sin and arctan2.
RoiQuadrilateral(x1_str, y1_str, x3_str, y3_str) ==
    IF \E text \in {x1_str, y1_str, x3_str, y3_str} : ~IsNumberText(text)
    THEN ValueError
    ELSE [kind |-> "ok",
          first |-> <<FixStart(FloatOf(x1_str), FloatOf(x3_str)),
                      FixStart(FloatOf(y1_str), FloatOf(y3_str))>>,
          third |-> <<FloatOf(x3_str), FloatOf(y3_str)>>]

\* Acquisition.roi_coords_um
roi_coords_um(a) ==
    LET x1_str == a.metadata.ROIStartXPosUm
        y1_str == a.metadata.ROIStartYPosUm
        x3_str == a.metadata.ROIEndXPosUm
        y3_str == a.metadata.ROIEndYPosUm
    IN  IF /\ x1_str # x3_str /\ y1_str # y3_str
           /\ x1_str # <<>> /\ y1_str # <<>>
           /\ x3_str # <<>> /\ y3_str # <<>>
           /\ width_um(a) # <<>> /\ height_um(a) # <<>>
        THEN RoiQuadrilateral(x1_str[1], y1_str[1], x3_str[1], y3_str[1])
        ELSE None

\* ---- Acquisitions with drawn positions -----------------------------------

\* Bound: the drawn positions are 0..MaxRoiUm micrometres, as they are and
\* multiplied by 1000.
MaxRoiUm == 2

\* "1001", which is as far from "2000" as from "2"; and "x"
TextTie == DecimalText(1001)

TextNoNumber == <<120>>

PositionTexts ==
    {DecimalText(k) : k \in 0..MaxRoiUm}
        \cup {DecimalText(k) \o <<46, 48>> : k \in 0..MaxRoiUm}
        \cup {DecimalText(1000 * k) : k \in 1..MaxRoiUm}
        \cup {TextTie, TextNoNumber}

Positions == {<<>>} \cup {<<text>> : text \in PositionTexts}

SizeKeys == {"MaxX", "MaxY", "AblationDistanceBetweenShotsX",
             "AblationDistanceBetweenShotsY"}

\* The metadata of an acquisition of 2 x 3 pixels of 1 um x 1.5 um, without
\* the keys in missing.
RoiMetadata(x1, y1, x3, y3, missing) ==
    [ROIStartXPosUm |-> x1, ROIStartYPosUm |-> y1,
     ROIEndXPosUm |-> x3, ROIEndYPosUm |-> y3,
     MaxX |-> IF "MaxX" \in missing THEN <<>> ELSE <<DecimalText(2)>>,
     MaxY |-> IF "MaxY" \in missing THEN <<>> ELSE <<DecimalText(3)>>,
     AblationDistanceBetweenShotsX |->
        IF "AblationDistanceBetweenShotsX" \in missing THEN <<>>
        ELSE <<DecimalText(1)>>,
     AblationDistanceBetweenShotsY |->
        IF "AblationDistanceBetweenShotsY" \in missing THEN <<>>
        ELSE <<DecimalText(1) \o <<46, 53>>>>]

InitRoi ==
    /\ \E x1 \in Positions, y1 \in Positions, x3 \in Positions,
          y3 \in Positions :
       \E missing \in {{}} \cup {{key} : key \in SizeKeys} :
           acq = [metadata |-> RoiMetadata(x1, y1, x3, y3, missing)]
    /\ read = Unread
    /\ file = Idle /\ schema = Idle /\ doc = Idle /\ parsed = Idle
    /\ img = Idle /\ image = Idle
    /\ fh = Idle /\ handles = Idle /\ last = Idle

\* acquisition.roi_coords_um
RoiCoordsUm ==
    /\ read = Unread
    /\ read' = roi_coords_um(acq)
    /\ UNCHANGED <<file, schema, doc, parsed, acq, img, image, fh, handles, last>>

NextRoi == RoiCoordsUm

SpecRoi == InitRoi /\ [][NextRoi]_vars

\* ---- Claims about roi_coords_um ------------------------------------------

\* The four positions are present and are numbers.
PositionsGiven(a) ==
    \A key \in {"ROIStartXPosUm", "ROIStartYPosUm", "ROIEndXPosUm",
                "ROIEndYPosUm"} :
        a.metadata[key] # <<>> /\ IsNumberText(a.metadata[key][1])

\* The start position the claim asks for: a thousandth of the raw value
\* exactly when that is strictly nearer to the end position.
CorrectedStart(raw, end) ==
    IF Abs(raw \div 1000 - end) < Abs(raw - end) THEN raw \div 1000 ELSE raw

\* The first and third points are the corrected start and the end, each axis
\* corrected on its own.
RoiDiagonalCorrected ==
    (read # Unread /\ read # Idle /\ read.kind = "ok") =>
        /\ read.first
             = <<CorrectedStart(FloatOf(acq.metadata.ROIStartXPosUm[1]),
                                FloatOf(acq.metadata.ROIEndXPosUm[1])),
                 CorrectedStart(FloatOf(acq.metadata.ROIStartYPosUm[1]),
                                FloatOf(acq.metadata.ROIEndYPosUm[1]))>>
        /\ read.third = <<FloatOf(acq.metadata.ROIEndXPosUm[1]),
                          FloatOf(acq.metadata.ROIEndYPosUm[1])>>

\* The start and end positions are equal on the x or on the y axis.
CoincideOnAnAxis(a) ==
    \/ FloatOf(a.metadata.ROIStartXPosUm[1]) = FloatOf(a.metadata.ROIEndXPosUm[1])
    \/ FloatOf(a.metadata.ROIStartYPosUm[1]) = FloatOf(a.metadata.ROIEndYPosUm[1])

\* C25 (as stated; refuted): roi_coords_um corrects the start position on each
\* axis on its own, to raw / 1000 exactly when |raw / 1000 - end| <
\* |raw - end|; the first and third points returned are the corrected start
\* and the end; and the result is null whenever a start or end position,
\* width_um or height_um is missing, or the start and end positions coincide
\* on either axis.
C25_RoiCorrectedOrNull ==
    /\ RoiDiagonalCorrected
    /\ (read # Unread /\ read # Idle) =>
        /\ (\E key \in {"ROIStartXPosUm", "ROIStartYPosUm", "ROIEndXPosUm",
                        "ROIEndYPosUm"} : acq.metadata[key] = <<>>)
               => read = None
        /\ (width_um(acq) = <<>> \/ height_um(acq) = <<>>) => read = None
        /\ (PositionsGiven(acq) /\ CoincideOnAnAxis(acq)) => read = None

\* ------------------------------------------------------------------------
\* Metadata maps changed by the caller
\* ------------------------------------------------------------------------
\* doc holds the Acquisition elements as they stand in the schema, parsed the
\* two Acquisition objects made from them, each with the dictionary that
\* _get_metadata_dict built for it, and file the file they are read from.

\* Two pixel records at (0, 0) with the channel values 11 and 21, followed by
\* room for an embedded image.
MetadataFile ==
    LET table == TableFile(<<<<0, 0>>, <<0, 0>>>>, 1)
        words == table.words \o [k \in 1..(HeaderSkip \div 4) |-> 7]
    IN  [opened |-> TRUE, words |-> words, size |-> 4 * Len(words)]

\* The Acquisition element k: its block is the k-th pixel record.
MetadataElem(k) ==
    [ID |-> k,
     metadata |->
        [MaxX |-> <<DecimalText(1)>>, MaxY |-> <<DecimalText(1)>>,
         AblationDistanceBetweenShotsX |-> <<DecimalText(1)>>,
         AblationDistanceBetweenShotsY |-> <<DecimalText(1)>>,
         ROIStartXPosUm |-> <<DecimalText(2)>>,
         ROIStartYPosUm |-> <<DecimalText(0)>>,
         ROIEndXPosUm |-> <<DecimalText(1)>>,
         ROIEndYPosUm |-> <<DecimalText(1)>>,
         DataStartOffset |-> <<DecimalText(TableOffset + 16 * (k - 1))>>,
         DataEndOffset |-> <<DecimalText(TableOffset + 16 * k)>>,
         ValueBytes |-> <<DecimalText(4)>>,
         BeforeAblationImageStartOffset |-> <<DecimalText(0)>>,
         BeforeAblationImageEndOffset |-> <<DecimalText(0)>>]]

\* The entries a caller assigns: metadata[key] = text, or del metadata[key]
\* for <<>>.
MetadataUpdates ==
    {<<"MaxX", v>> : v \in {<<>>, <<DecimalText(1)>>, <<DecimalText(2)>>}}
    \cup {<<"ROIStartXPosUm", <<DecimalText(v)>>>> : v \in {2, 1000}}
    \cup {<<"DataStartOffset", <<DecimalText(v)>>>> :
              v \in {TableOffset, TableOffset + 16}}
    \cup {<<"DataEndOffset", <<DecimalText(v)>>>> :
              v \in {TableOffset + 16, TableOffset + 32}}
    \cup {<<"BeforeAblationImageEndOffset", <<DecimalText(v)>>>> :
              v \in {0, HeaderSkip + 6}}

\* Mutant of LiveMetadata: the values are those the parser found.
MetadataAtParse(k) == doc[k].metadata

\* self.metadata / acquisition.metadata: the dictionary the object holds,
\* looked up at every call.
LiveMetadata(k) == parsed[k].metadata

\* The Acquisition object k as an accessor or a read sees it.
AcquisitionObject(k) == [parsed[k] EXCEPT !.metadata = LiveMetadata(k)]

\* int(metadata[key]) under except (KeyError, ValueError): <<n>>, or <<>>
\* when the key is missing or its text is no integer.
IntMetadata(metadata) ==
    [key \in DOMAIN metadata |->
        IF metadata[key] # <<>> /\ IsIntText(metadata[key][1])
        THEN <<DecimalValue(metadata[key][1])>> ELSE <<>>]

\* read_acquisition(acquisition) on the open file, with default arguments
ReadAcquisitionOf(a) ==
    read_acquisition([f |-> file,
                      acquisition |-> <<[num_channels |-> a.num_channels,
                                         metadata |-> IntMetadata(a.metadata)]>>,
                      strict |-> TRUE, channels |-> <<>>, region |-> <<>>,
                      create_temp_file |-> <<>>])

\* read_before_ablation_image(acquisition, raw=True) on the open file
ReadBeforeAblationImageOf(a) ==
    read_before_ablation_image(
        [kind |-> "acquisition", id |-> a.id, decodes |-> TRUE,
         file_size |-> file.size, metadata |-> IntMetadata(a.metadata)], TRUE)

EntityCall(op, k, result) == [op |-> op, entity |-> k, result |-> result]

InitMetadata ==
    /\ doc = [k \in 1..2 |-> MetadataElem(k)]
    /\ parsed = [k \in 1..2 |->
                    [id |-> doc[k].ID, num_channels |-> 1,
                     metadata |-> doc[k].metadata]]
    /\ file = MetadataFile
    /\ last = [op |-> "parse_slides"]
    /\ schema = Idle /\ acq = Idle /\ read = Idle
    /\ img = Idle /\ image = Idle /\ fh = Idle /\ handles = Idle

\* acquisition.metadata[key] = value, by the caller
SetMetadata ==
    \E k \in 1..2, update \in MetadataUpdates :
        /\ parsed' = [parsed EXCEPT ![k].metadata[update[1]] = update[2]]
        /\ last' = [op |-> "set", entity |-> k, key |-> update[1],
                    value |-> update[2]]
        /\ UNCHANGED <<file, schema, doc, acq, read, img, image, fh, handles>>

Accessed(op, k, result) ==
    /\ last' = EntityCall(op, k, result)
    /\ UNCHANGED <<file, schema, doc, parsed, acq, read, img, image, fh, handles>>

\* acquisition.width_px
GetWidthPx == \E k \in 1..2 : Accessed("width_px", k, width_px(AcquisitionObject(k)))

\* acquisition.width_um
GetWidthUm == \E k \in 1..2 : Accessed("width_um", k, width_um(AcquisitionObject(k)))

\* acquisition.roi_coords_um
GetRoiCoordsUm ==
    \E k \in 1..2 :
        Accessed("roi_coords_um", k, roi_coords_um(AcquisitionObject(k)))

\* f.read_acquisition(acquisition)
MetadataReadAcquisition ==
    \E k \in 1..2 :
        Accessed("read_acquisition", k, ReadAcquisitionOf(AcquisitionObject(k)))

\* f.read_before_ablation_image(acquisition, raw=True)
MetadataReadBeforeAblationImage ==
    \E k \in 1..2 :
        Accessed("read_before_ablation_image", k,
                 ReadBeforeAblationImageOf(AcquisitionObject(k)))

NextMetadata ==
    \/ SetMetadata
    \/ GetWidthPx
    \/ GetWidthUm
    \/ GetRoiCoordsUm
    \/ MetadataReadAcquisition
    \/ MetadataReadBeforeAblationImage

SpecMetadata == InitMetadata /\ [][NextMetadata]_vars

\* ---- Claims about changed metadata ---------------------------------------

DerivedOps == {"width_px", "width_um", "roi_coords_um", "read_acquisition",
               "read_before_ablation_image"}

\* What the operation gives for an entity whose metadata map is as given.
DerivedFrom(op, a) ==
    CASE op = "width_px" -> width_px(a)
      [] op = "width_um" -> width_um(a)
      [] op = "roi_coords_um" -> roi_coords_um(a)
      [] op = "read_acquisition" -> ReadAcquisitionOf(a)
      [] op = "read_before_ablation_image" -> ReadBeforeAblationImageOf(a)

\* The last call, made after every change so far, gave the value that follows
\* from the entity's metadata map as it is now.
DerivedFromCurrentMap ==
    (last # Idle /\ last.op \in DerivedOps) =>
        last.result = DerivedFrom(last.op, parsed[last.entity])

\* A step changes the metadata map of entity k only when it is an assignment
\* to that map; the maps of the other entities stay as they are.
OnlySetChangesItsEntity ==
    \A k \in 1..2 :
        parsed'[k] # parsed[k] => (last'.op = "set" /\ last'.entity = k)

\* C26: derived values are computed from the metadata map at each call: after
\* an entry of one entity's map is changed, every later accessor (width_px,
\* width_um, roi_coords_um), read_acquisition and image read on that entity
\* gives what follows from the map as changed, and the maps (hence the derived
\* values) of the other entities are as before.
C26_DerivedValuesFollowMetadata ==
    [](DerivedFromCurrentMap) /\ [][OnlySetChangesItsEntity]_vars

\* MaxX of one acquisition has been changed from "1" to "2" and width_px then
\* gave 2, the other acquisition's map being as parsed.
C26_Witness ==
    /\ last # Idle /\ last.op = "width_px" /\ last.result = <<2>>
    /\ doc[last.entity].metadata.MaxX = <<DecimalText(1)>>
    /\ \A k \in 1..2 : k # last.entity => parsed[k].metadata = doc[k].metadata

====
